---------------------------- MODULE Spec2Model ----------------------------
(***************************************************************************)
(* Model of the morph post-processing core of neulbokim/kor4001:          *)
(*   utils/morph_analyzer.py            MorphAnalyzer                      *)
(*   scripts/preprocessing/03_process_morph.py   interactive_callback,     *)
(*                                               main                      *)
(*                                                                         *)
(* Text.  A character is one string atom; a Python str is a sequence of   *)
(* characters.  The Korean syllables and jamo the code names are written  *)
(* romanised: "eum" = U+C74C, "m" = U+3141, "gi" = U+AE30, "gui" = U+AE14,*)
(* "no" = U+B178, "na" = U+B098, "seun" = U+C2A8, "im" = U+C784,          *)
(* "bap" = U+BC25.  Offsets into a sentence are 0-based, as in the source.*)
(*                                                                         *)
(* Tokens.  A token is [kind, f]: f is the sequence of its fields         *)
(* (morph, tag, prob, oov), of any length 0..4, and kind tells whether    *)
(* the Python object is a list (as json.loads delivers it) or a tuple (as *)
(* _refine_tokens and flush_buffer build it).  Probabilities are in       *)
(* hundredths (0.92 is 92).                                               *)
(***************************************************************************)
EXTENDS Integers, Sequences, FiniteSets, TLC

VARIABLES
    interactive,     \* args.interactive: the session passes interactive_callback
    decision_cache,  \* module-global dict (morph, tag) -> 'KEEP' | 'SKIP' | tag
    stats,           \* module-global dict: corrections, deletions
    sentence,        \* base_sentence of the segment being processed
    tokens,          \* its token list, as read from the input row
    pc,              \* where the session stands
    run,             \* _refine_tokens' loop when it is blocked in input()
    calls,           \* the interactive_callback invocations of the current call
    refined,         \* what _refine_tokens returned for the current segment
    positions,       \* what _token_positions returned for it
    segmented,       \* what segment_sentence_by_endings returned (or that it raised)
    morph_results,   \* main: the records collected for the current row
    skip_row,        \* main: the current row saw a DELETE token
    rowNo,           \* main: number of rows taken from the input so far
    row,             \* main: the segments of the current row not yet processed
    callNo,          \* number of segment_sentence_by_endings calls so far
    written,         \* main: the numbers of the rows appended to processed_rows
    typed,           \* the last line the operator typed at an input() of the callback
    workers,         \* the threads that call interactive_callback on the shared cache
    output,          \* what the function applied in a pure-function run returned
    df,              \* main: the rows read from the input file (resumable runs)
    output_path_partial,  \* the rows in the .partial.csv file, if it exists
    output_path      \* the rows in the final output file, if it exists

vars == <<interactive, decision_cache, stats, sentence, tokens, pc, run, calls,
          refined, positions, segmented, morph_results, skip_row, rowNo, row,
          callNo, written, typed, workers, output,
                   df, output_path_partial, output_path>>

-----------------------------------------------------------------------------
(* Bounds of the model.                                                    *)

MaxTokens == 3      \* longest token list of a segment (pure-function runs)
MaxLen == 2         \* longest sentence, in characters (pure-function runs)
MaxRows == 2        \* rows of the input file a session reads
MaxText == 8        \* longest text given to extract_symbols, in characters
MaxCalls == 2       \* callback invocations of one worker (concurrent sessions)
MaxEndings == 4     \* longest list of endings given to is_banmal
MaxInput == 4       \* rows of the input file of a resumable run
save_interval == 2  \* rows buffered before they are appended to the partial file

(* Program constants.                                                      *)
ProbForceEF == 90   \* prob <= 0.9
ProbAskEC == 92     \* prob <= 0.92
ProbManual == 95    \* min_prob < 0.95
NonePos == -1       \* start_pos = None, end_pos = None
ProbLastManual == 70   \* last_token_prob < 0.7
ProbMinManual == 30    \* min_prob < 0.3
SymbolCap == 3      \* match.group(0)[:3]

-----------------------------------------------------------------------------
(* Python str and list primitives.                                         *)

Min(S) == CHOOSE x \in S : \A y \in S : x <= y
Max(S) == CHOOSE x \in S : \A y \in S : x >= y

\* s[a:b] for 0 <= a, 0 <= b <= len(s); empty when a >= b.
Slice(s, a, b) == SubSeq(s, a + 1, b)

\* s.find(sub, start): the least offset >= start at which sub occurs, or -1.
Find(s, sub, start) ==
    LET at == {k \in start .. (Len(s) - Len(sub)) : Slice(s, k, k + Len(sub)) = sub}
    IN  IF at = {} THEN -1 ELSE Min(at)

Whitespace == {" "}

\* s.strip()
Strip(s) ==
    LET ink == {k \in 1 .. Len(s) : s[k] \notin Whitespace}
    IN  IF ink = {} THEN <<>> ELSE SubSeq(s, Min(ink), Max(ink))

\* tag.startswith(c), over the tags of the model.
FirstLetter(tag) ==
    CASE tag \in {"JX", "JKS"} -> "J"
      [] tag \in {"SF", "SP"} -> "S"
      [] tag \in {"EF", "EC", "ECF", "ETN", "EP"} -> "E"
      [] tag \in {"NNG"} -> "N"
      [] tag \in {"MAG"} -> "M"
      [] tag \in {"KEEP"} -> "K"
      [] tag \in {"DELETE"} -> "D"
      [] OTHER -> "?"

startswith(tag, c) == FirstLetter(tag) = c

-----------------------------------------------------------------------------
(* Tokens.                                                                 *)

List(fields) == [kind |-> "list", f |-> fields]
Tuple(fields) == [kind |-> "tuple", f |-> fields]

len(token) == Len(token.f)

\* t[2:] of a token
Tail2(token) == SubSeq(token.f, 3, Len(token.f))

FINAL_ENDING_TAGS == {"EF", "ECF"}
\* No tag splits: what C27 must tell from SPLIT_ENDING_TAGS.
SplitAtNoTag == {}
SPLIT_ENDING_TAGS == {"EF"}

ETN_ENDINGS == {<<"m">>, <<"eum">>, <<"gi">>, <<"gui">>}
FORCE_EF_MORPHS == {<<"gui">>, <<"no">>, <<"na">>, <<"seun">>, <<"im">>}
ASK_ETN_MORPHS == {<<"m">>, <<"eum">>}
ASK_MORPH == <<"im">>

-----------------------------------------------------------------------------
(* MorphAnalyzer._token_positions                                          *)

\* morph = token[0] if token and isinstance(token, (list, tuple)) else ''
PosMorph(token) == IF len(token) > 0 THEN token.f[1] ELSE <<>>

\* A search that ignores the cursor: what C6 must tell from Locate.
LocateFromStart(sent, morph, cursor) == Find(sent, morph, 0)

\* The offset find() gives for one token: from the cursor, then from the
\* beginning of the sentence; -1 when the morph occurs nowhere.
Locate(sent, morph, cursor) ==
    IF Find(sent, morph, cursor) # -1
    THEN Find(sent, morph, cursor)
    ELSE Find(sent, morph, 0)

\* The (start, end) appended for one token, given the cursor before it.
TokenPosition(sent, token, cursor) ==
    LET morph == PosMorph(token)
        at == Locate(sent, morph, cursor)
    IN  IF morph = <<>> THEN <<cursor, cursor>>
        ELSE IF at = -1 THEN <<cursor, cursor>>
        ELSE <<at, at + Len(morph)>>

\* The cursor after the first n tokens.
RECURSIVE CursorAfter(_, _, _)
CursorAfter(sent, toks, n) ==
    IF n = 0 THEN 0
    ELSE LET cursor == CursorAfter(sent, toks, n - 1)
             morph == PosMorph(toks[n])
         IN  IF morph = <<>> \/ Locate(sent, morph, cursor) = -1
             THEN cursor
             ELSE TokenPosition(sent, toks[n], cursor)[2]

_token_positions(sent, toks) ==
    [n \in 1 .. Len(toks) |-> TokenPosition(sent, toks[n], CursorAfter(sent, toks, n - 1))]

-----------------------------------------------------------------------------
(* MorphAnalyzer._refine_tokens and the decision source it consults         *)

NoneTag == "None"                       \* the callback returned None

EmptyCache == [k \in {} |-> "KEEP"]      \* decision_cache = {}

morphOf(token) == token.f[1]
tagOf(token) == token.f[2]
probOf(token) == token.f[3]
\* oov = token[3] if len(token) >= 4 else 0
oovOf(token) == IF len(token) >= 4 THEN token.f[4] ELSE 0

\* Rule 0: the next token exists, has a tag, and the tag starts with 'J'.
IsFollowedByJosa(toks, i) ==
    /\ i + 1 <= Len(toks)
    /\ len(toks[i + 1]) >= 2
    /\ startswith(tagOf(toks[i + 1]), "J")

\* Rule 0-1: the scan for j in range(i + 1, len(tokens)).  "yes": every token
\* from j on has a tag starting with 'S'; "no": the scan met another tag;
\* "raise": tokens[j][1] met a token with fewer than 2 fields (IndexError).
RECURSIVE LastMeaningful(_, _)
LastMeaningful(toks, j) ==
    IF j > Len(toks) THEN "yes"
    ELSE IF len(toks[j]) < 2 THEN "raise"
    ELSE IF ~startswith(tagOf(toks[j]), "S") THEN "no"
    ELSE LastMeaningful(toks, j + 1)

\* The rules with rule 1 applied first and rules 0 and 0-1 after it: what
\* C20 must tell from AutoTag.
AutoTagForceFirst(toks, i) ==
    LET token == toks[i]
        rule1 == IF morphOf(token) \in FORCE_EF_MORPHS /\ probOf(token) <= ProbForceEF
                 THEN "EF" ELSE tagOf(token)
        rule0 == IF /\ tagOf(token) = "ETN"
                    /\ morphOf(token) \in ETN_ENDINGS
                    /\ ~IsFollowedByJosa(toks, i)
                 THEN "EF" ELSE rule1
    IN  IF tagOf(token) = "EC" /\ LastMeaningful(toks, i + 1) = "yes"
        THEN "ECF" ELSE rule0

\* new_tag after the automatic rules 0, 0-1 and 1, for a token of >= 3 fields.
AutoTag(toks, i) ==
    LET token == toks[i]
        rule0 == IF /\ tagOf(token) = "ETN"
                    /\ morphOf(token) \in ETN_ENDINGS
                    /\ ~IsFollowedByJosa(toks, i)
                 THEN "EF" ELSE tagOf(token)
        rule01 == IF tagOf(token) = "EC" /\ LastMeaningful(toks, i + 1) = "yes"
                  THEN "ECF" ELSE rule0
    IN  IF morphOf(token) \in FORCE_EF_MORPHS /\ probOf(token) <= ProbForceEF
        THEN "EF" ELSE rule01

\* The three branches that call callback(token, tokens, i, sentence).
Escalates(token, new_tag) ==
    \/ new_tag = "EC" /\ probOf(token) <= ProbAskEC
    \/ new_tag = "ETN" /\ morphOf(token) \in ASK_ETN_MORPHS
    \/ morphOf(token) = ASK_MORPH

\* The escalation without its callback guard: what C7 must tell from Consults.
ConsultsWithoutCallback(cb, token, new_tag) == Escalates(token, new_tag)

\* if callback is not None: ... decision = callback(token, tokens, i, sentence)
Consults(cb, token, new_tag) == cb /\ Escalates(token, new_tag)

\* A retag that loses the OOV flag: what C9 must tell from Retag.
RetagDropOov(token, new_tag) ==
    IF new_tag # tagOf(token)
    THEN Tuple(<<morphOf(token), new_tag, probOf(token), 0>>)
    ELSE token

\* if new_tag != tag: (morph, new_tag, prob, oov) else: token
Retag(token, new_tag) ==
    IF new_tag # tagOf(token)
    THEN Tuple(<<morphOf(token), new_tag, probOf(token), oovOf(token)>>)
    ELSE token

\* interactive_callback: cache_key = (morph, tag)
CacheKey(token) == <<morphOf(token), tagOf(token)>>

\* A lookup that never hits: what C4 must tell from CacheHit.
CacheHitNever(cache, key) == FALSE

\* interactive_callback: if cache_key in decision_cache
CacheHit(cache, key) == key \in DOMAIN cache

\* interactive_callback on a hit: None for KEEP and SKIP, the cached tag otherwise.
CachedDecision(cache, key) ==
    IF cache[key] \in {"KEEP", "SKIP"} THEN NoneTag ELSE cache[key]

\* interactive_callback on a miss, "Show context": f"{t[0]}/{t[1]}" raises
\* IndexError on a token of the +-3 window with fewer than 2 fields.
ContextRaises(toks, i) ==
    \E k \in 1 .. Len(toks) : k >= i - 3 /\ k <= i + 3 /\ len(toks[k]) < 2

\* One callback invocation, as recorded in calls: its key, whether the key was
\* in decision_cache and with which value, whether the callback went on to
\* prompt, and what it returned.
Call(cache, key, hit, ret) ==
    [key |-> key,
     cached |-> key \in DOMAIN cache,
     value |-> IF key \in DOMAIN cache THEN cache[key] ELSE NoneTag,
     prompted |-> ~hit,
     ret |-> ret]

RefineResult(status, i, acc, corr, log, new_tag) ==
    [status |-> status, i |-> i, refined |-> acc, corrections |-> corr,
     calls |-> log, new_tag |-> new_tag]

\* The loop of _refine_tokens from token i on, with the tokens refined so far
\* in acc, until it ends ("done"), raises ("raise") or blocks in the callback's
\* input() for token i ("prompt").  cb: a callback was passed.
RECURSIVE RefineFrom(_, _, _, _, _, _, _)
RefineFrom(toks, i, acc, cache, corr, log, cb) ==
    IF i > Len(toks) THEN RefineResult("done", i, acc, corr, log, NoneTag)
    ELSE
    LET token == toks[i] IN
    IF len(token) < 3
    THEN RefineFrom(toks, i + 1, Append(acc, token), cache, corr, log, cb)
    ELSE IF tagOf(token) = "EC" /\ LastMeaningful(toks, i + 1) = "raise"
    THEN RefineResult("raise", i, acc, corr, log, NoneTag)
    ELSE
    LET new_tag == AutoTag(toks, i)
        key == CacheKey(token)
    IN
    IF Consults(cb, token, new_tag)
    THEN IF CacheHit(cache, key)
         THEN LET decision == CachedDecision(cache, key)
              IN  RefineFrom(toks, i + 1,
                      Append(acc, Retag(token, IF decision # NoneTag
                                               THEN decision ELSE new_tag)),
                      cache,
                      IF decision # NoneTag THEN corr + 1 ELSE corr,
                      Append(log, Call(cache, key, TRUE, decision)), cb)
         ELSE IF ContextRaises(toks, i)
         THEN RefineResult("raise", i, acc, corr, log, NoneTag)
         ELSE RefineResult("prompt", i, acc, corr,
                           Append(log, Call(cache, key, FALSE, NoneTag)), new_tag)
    ELSE RefineFrom(toks, i + 1, Append(acc, Retag(token, new_tag)),
                    cache, corr, log, cb)

\* _refine_tokens(tokens, callback=None)
_refine_tokens(toks) == RefineFrom(toks, 1, <<>>, EmptyCache, 0, <<>>, FALSE)

-----------------------------------------------------------------------------
(* MorphAnalyzer.segment_sentence_by_endings                               *)

\* The inner while of the EF branch: the tokens after an EF token that join
\* its buffer.  Ends at the first token with a tag that is none of J*, EP, S*.
\* An absorption of particles and auxiliary endings only: what C28 must tell
\* from Absorb.
RECURSIVE AbsorbNoPunctuation(_, _, _, _, _)
AbsorbNoPunctuation(toks, pos, lookahead, buffer_tokens, end_pos) ==
    IF lookahead > Len(toks)
    THEN [lookahead |-> lookahead, buffer_tokens |-> buffer_tokens, end_pos |-> end_pos]
    ELSE
    LET next_token == toks[lookahead] IN
    IF len(next_token) < 2
    THEN AbsorbNoPunctuation(toks, pos, lookahead + 1, buffer_tokens, end_pos)
    ELSE IF startswith(tagOf(next_token), "J") \/ tagOf(next_token) = "EP"
    THEN AbsorbNoPunctuation(toks, pos, lookahead + 1, Append(buffer_tokens, next_token),
                             IF pos[lookahead][2] > pos[lookahead][1]
                             THEN pos[lookahead][2] ELSE end_pos)
    ELSE [lookahead |-> lookahead, buffer_tokens |-> buffer_tokens, end_pos |-> end_pos]

RECURSIVE Absorb(_, _, _, _, _)
Absorb(toks, pos, lookahead, buffer_tokens, end_pos) ==
    IF lookahead > Len(toks)
    THEN [lookahead |-> lookahead, buffer_tokens |-> buffer_tokens, end_pos |-> end_pos]
    ELSE
    LET next_token == toks[lookahead] IN
    IF len(next_token) < 2
    THEN Absorb(toks, pos, lookahead + 1, buffer_tokens, end_pos)
    ELSE IF \/ startswith(tagOf(next_token), "J")
            \/ tagOf(next_token) = "EP"
            \/ startswith(tagOf(next_token), "S")
    THEN Absorb(toks, pos, lookahead + 1, Append(buffer_tokens, next_token),
                IF pos[lookahead][2] > pos[lookahead][1]
                THEN pos[lookahead][2] ELSE end_pos)
    ELSE [lookahead |-> lookahead, buffer_tokens |-> buffer_tokens, end_pos |-> end_pos]

\* (t[0], 'ECF') + t[2:] : a tuple plus a list is a TypeError.
RewriteRaises(token) == token.kind = "list"

RewriteECF(token) == Tuple(<<morphOf(token), "ECF">> \o Tail2(token))

\* flush_buffer(explicit_end_pos) on the loop state st.
flush_buffer(sent, st, explicit_end_pos) ==
    IF st.buffer_tokens = <<>> \/ st.start_pos = NonePos THEN st
    ELSE
    LET given == IF explicit_end_pos # NonePos THEN explicit_end_pos ELSE st.end_pos
        final_end == IF given = NonePos THEN Len(sent) ELSE given
        n == Len(st.buffer_tokens)
        last == st.buffer_tokens[n]
    IN
    IF tagOf(last) = "EC" /\ RewriteRaises(last)
    THEN [st EXCEPT !.raised = TRUE]
    ELSE
    LET emitted == IF tagOf(last) = "EC"
                   THEN [st.buffer_tokens EXCEPT ![n] = RewriteECF(last)]
                   ELSE st.buffer_tokens
        text == Slice(sent, st.start_pos, final_end)
    IN  [buffer_tokens |-> <<>>, start_pos |-> NonePos, end_pos |-> NonePos,
         segments |-> Append(st.segments, [text |-> Strip(text), tokens |-> emitted]),
         raised |-> FALSE]

\* A split_end that is always the next token's start: what C19 must tell
\* from SplitEnd.
SplitEndAtNextStart(sent, toks, pos, lookahead, end_pos) ==
    IF lookahead <= Len(toks) THEN pos[lookahead][1] ELSE Len(sent)

\* split_end of the EF branch, after the absorption stopped at lookahead.
SplitEnd(sent, toks, pos, lookahead, end_pos) ==
    IF lookahead <= Len(toks)
    THEN LET next_start == pos[lookahead][1]
         IN  IF end_pos = NonePos \/ next_start >= end_pos
             THEN next_start ELSE end_pos
    ELSE Len(sent)

\* The main while of segment_sentence_by_endings from token idx on, then the
\* final flush.
RECURSIVE SegLoop(_, _, _, _, _)
SegLoop(sent, toks, pos, idx, st) ==
    IF st.raised THEN st
    ELSE IF idx > Len(toks) THEN flush_buffer(sent, st, Len(sent))
    ELSE
    LET token == toks[idx] IN
    IF len(token) < 2 THEN SegLoop(sent, toks, pos, idx + 1, st)
    ELSE
    LET st1 == [st EXCEPT
                  !.buffer_tokens = Append(@, token),
                  !.start_pos = IF @ = NonePos THEN pos[idx][1] ELSE @,
                  !.end_pos = IF pos[idx][2] > pos[idx][1]
                              THEN pos[idx][2] ELSE @]
    IN
    IF tagOf(token) \in SPLIT_ENDING_TAGS
    THEN LET a == Absorb(toks, pos, idx + 1, st1.buffer_tokens, st1.end_pos)
             split_end == SplitEnd(sent, toks, pos, a.lookahead, a.end_pos)
         IN  SegLoop(sent, toks, pos, a.lookahead,
                     flush_buffer(sent,
                                  [st1 EXCEPT !.buffer_tokens = a.buffer_tokens,
                                              !.end_pos = a.end_pos],
                                  split_end))
    ELSE SegLoop(sent, toks, pos, idx + 1, st1)

Returned(segs) == [raised |-> FALSE, segments |-> segs]
Raised == [raised |-> TRUE, segments |-> <<>>]

\* segment_sentence_by_endings after the refinement: pos, loop, final flush.
SegmentRefined(sent, reftoks) ==
    LET st == SegLoop(sent, reftoks, _token_positions(sent, reftoks), 1,
                      [buffer_tokens |-> <<>>, start_pos |-> NonePos,
                       end_pos |-> NonePos, segments |-> <<>>, raised |-> FALSE])
    IN  IF st.raised THEN Raised ELSE Returned(st.segments)

\* if not sentence or not tokens: return [(sentence, tokens)]
EarlyReturn(sent, toks) == sent = <<>> \/ toks = <<>>

\* segment_sentence_by_endings(sentence, tokens, refinement_callback=None)
segment_sentence_by_endings(sent, toks) ==
    IF EarlyReturn(sent, toks)
    THEN Returned(<<[text |-> sent, tokens |-> toks]>>)
    ELSE IF _refine_tokens(toks).status = "raise" THEN Raised
    ELSE SegmentRefined(sent, _refine_tokens(toks).refined)

-----------------------------------------------------------------------------
(* MorphAnalyzer.extract_final_endings                                     *)

\* An inner while that passes over a token it does not collect instead of
\* stopping at it: what C13 must tell from EndingLookahead.
RECURSIVE EndingLookaheadPasses(_, _, _, _)
EndingLookaheadPasses(toks, lookahead, endings, idx) ==
    IF lookahead > Len(toks) THEN [endings |-> endings, idx |-> idx]
    ELSE
    LET next_token == toks[lookahead] IN
    IF len(next_token) >= 2
       /\ (startswith(tagOf(next_token), "J") \/ tagOf(next_token) = "EP")
    THEN EndingLookaheadPasses(toks, lookahead + 1, Append(endings, next_token),
                               lookahead)
    ELSE EndingLookaheadPasses(toks, lookahead + 1, endings, idx)

\* The inner while: the J* and EP tokens that follow an ending at idx.
RECURSIVE EndingLookahead(_, _, _, _)
EndingLookahead(toks, lookahead, endings, idx) ==
    IF lookahead > Len(toks) THEN [endings |-> endings, idx |-> idx]
    ELSE
    LET next_token == toks[lookahead] IN
    IF len(next_token) < 2
    THEN EndingLookahead(toks, lookahead + 1, endings, idx)
    ELSE IF startswith(tagOf(next_token), "J") \/ tagOf(next_token) = "EP"
    THEN EndingLookahead(toks, lookahead + 1, Append(endings, next_token), lookahead)
    ELSE [endings |-> endings, idx |-> idx]

\* An outer while that opens a cluster at EF only: what C26 must tell from
\* EndingsFrom.
RECURSIVE EndingsFromSplitTags(_, _, _)
EndingsFromSplitTags(toks, idx, endings) ==
    IF idx > Len(toks) THEN endings
    ELSE
    LET token == toks[idx] IN
    IF len(token) < 2 THEN EndingsFromSplitTags(toks, idx + 1, endings)
    ELSE IF tagOf(token) \in SPLIT_ENDING_TAGS
    THEN LET a == EndingLookahead(toks, idx + 1, Append(endings, token), idx)
         IN  EndingsFromSplitTags(toks, a.idx + 1, a.endings)
    ELSE EndingsFromSplitTags(toks, idx + 1, endings)

RECURSIVE EndingsFrom(_, _, _)
EndingsFrom(toks, idx, endings) ==
    IF idx > Len(toks) THEN endings
    ELSE
    LET token == toks[idx] IN
    IF len(token) < 2 THEN EndingsFrom(toks, idx + 1, endings)
    ELSE IF tagOf(token) \in FINAL_ENDING_TAGS
    THEN LET a == EndingLookahead(toks, idx + 1, Append(endings, token), idx)
         IN  EndingsFrom(toks, a.idx + 1, a.endings)
    ELSE EndingsFrom(toks, idx + 1, endings)

extract_final_endings(toks) == EndingsFrom(toks, 1, <<>>)

-----------------------------------------------------------------------------
(* MorphAnalyzer.extract_symbols                                           *)

\* EMOTION_REGEX = [ㄱ-ㅎㅏ-ㅣ]+ : the jamo ㅋ, ㅎ, ㅠ of the model's texts.
EmotionChars == {"k", "h", "yu"}
\* PUNCTUATION_REGEX = [?!~…\.]+
PunctuationChars == {"?", "!", "~", "...", "."}

\* regex.finditer(text) for a regex [class]+ : the maximal runs of characters
\* of the class, from left to right; cur is the run being read from i on.
RECURSIVE Runs(_, _, _, _, _)
Runs(text, class, i, cur, acc) ==
    IF i > Len(text) THEN (IF cur = <<>> THEN acc ELSE Append(acc, cur))
    ELSE IF text[i] \in class THEN Runs(text, class, i + 1, Append(cur, text[i]), acc)
    ELSE Runs(text, class, i + 1, <<>>, IF cur = <<>> THEN acc ELSE Append(acc, cur))

finditer(class, text) == Runs(text, class, 1, <<>>, <<>>)

\* match.group(0)[:3]
Cap(match) == SubSeq(match, 1, Min({SymbolCap, Len(match)}))

\* A loop that tests the match, not the capped sequence, against the list:
\* what C14 must tell from Collect.
RECURSIVE CollectUncapped(_, _, _)
CollectUncapped(matches, k, acc) ==
    IF k > Len(matches) THEN acc
    ELSE CollectUncapped(matches, k + 1,
             IF \A j \in 1 .. (k - 1) : matches[j] # matches[k]
             THEN Append(acc, Cap(matches[k])) ELSE acc)

\* for match in ...: sequence = match.group(0)[:3]; if sequence and sequence
\* not in the list: append.  From the k-th match on.
RECURSIVE Collect(_, _, _)
Collect(matches, k, acc) ==
    IF k > Len(matches) THEN acc
    ELSE LET sequence == Cap(matches[k])
         IN  Collect(matches, k + 1,
                     IF sequence # <<>> /\ \A j \in 1 .. Len(acc) : acc[j] # sequence
                     THEN Append(acc, sequence) ELSE acc)

extract_symbols(text) ==
    [punctuation |-> Collect(finditer(PunctuationChars, text), 1, <<>>),
     other_symbols |-> Collect(finditer(EmotionChars, text), 1, <<>>)]

-----------------------------------------------------------------------------
(* MorphAnalyzer.is_banmal                                                 *)

\* polite_endings = ['요', '죠', '습니다', 'ㅂ니다', '까요', '나요', '인가요']
polite_endings ==
    { <<"yo">>, <<"jyo">>, <<"seup", "ni", "da">>, <<"b", "ni", "da">>,
      <<"kka", "yo">>, <<"na", "yo">>, <<"in", "ga", "yo">> }

\* is_polite = any(p in morph for p in polite_endings)
is_polite(ending) == \E p \in polite_endings : Find(morphOf(ending), p, 0) # -1

\* The loop over endings, from the k-th on, with the two scores so far.
RECURSIVE Scores(_, _, _, _)
Scores(endings, k, polite_score, banmal_score) ==
    IF k > Len(endings) THEN [polite_score |-> polite_score, banmal_score |-> banmal_score]
    ELSE IF is_polite(endings[k])
    THEN Scores(endings, k + 1, polite_score + 1, banmal_score)
    ELSE Scores(endings, k + 1, polite_score, banmal_score + 1)

\* A comparison that needs more polite endings than half the others: what
\* C15 must tell from is_banmal.
is_banmal_strict(endings) ==
    IF endings = <<>> THEN FALSE
    ELSE LET s == Scores(endings, 1, 0, 0)
         IN  ~(s.polite_score > 0 /\ 2 * s.polite_score > s.banmal_score)

\* polite_score >= banmal_score * 0.5, in halves.
is_banmal(endings) ==
    IF endings = <<>> THEN FALSE
    ELSE LET s == Scores(endings, 1, 0, 0)
         IN  ~(s.polite_score > 0 /\ 2 * s.polite_score >= s.banmal_score)

-----------------------------------------------------------------------------
(* 03_process_morph.main: the records of one segment's pieces              *)

\* A check of the last token only: what C10 must tell from HasDelete.
HasDeleteLast(piece_tokens) ==
    piece_tokens # <<>> /\ tagOf(piece_tokens[Len(piece_tokens)]) = "DELETE"

\* any(t[1] == 'DELETE' for t in piece_tokens)
HasDelete(piece_tokens) ==
    \E k \in 1 .. Len(piece_tokens) : tagOf(piece_tokens[k]) = "DELETE"

\* t[1] on a token with fewer than 2 fields, met before a DELETE token is
\* found: an IndexError outside main's try block.
DeleteCheckRaises(piece_tokens) ==
    \E k \in 1 .. Len(piece_tokens) :
        /\ len(piece_tokens[k]) < 2
        /\ \A j \in 1 .. (k - 1) : tagOf(piece_tokens[j]) # "DELETE"

MinProb(piece_tokens) ==
    LET probs == {probOf(piece_tokens[k]) :
                    k \in {j \in 1 .. Len(piece_tokens) : len(piece_tokens[j]) >= 3}}
    IN  IF probs = {} THEN 0 ELSE Min(probs)

LastTokenProb(piece_tokens) ==
    IF piece_tokens # <<>> /\ len(piece_tokens[Len(piece_tokens)]) >= 3
    THEN probOf(piece_tokens[Len(piece_tokens)]) ELSE 0

HasOov(piece_tokens) ==
    \E k \in 1 .. Len(piece_tokens) :
        len(piece_tokens[k]) >= 4 /\ piece_tokens[k].f[4] > 0

\* needs_manual_intent of 03_process_morph
NeedsManualIntent(piece_tokens) ==
    MinProb(piece_tokens) < ProbManual \/ HasOov(piece_tokens)

\* The dict appended to morph_results for one piece.
MorphResult(piece) ==
    [sentence |-> piece.text,
     endings |-> extract_final_endings(piece.tokens),
     punctuation |-> extract_symbols(piece.text).punctuation,
     other_symbols |-> extract_symbols(piece.text).other_symbols,
     min_prob |-> MinProb(piece.tokens),
     last_token_prob |-> LastTokenProb(piece.tokens),
     has_oov |-> HasOov(piece.tokens),
     needs_manual_intent |-> NeedsManualIntent(piece.tokens)]

\* for piece_text, piece_tokens in segmented: from piece k on.  The loop
\* breaks at the first piece holding a DELETE token.
RECURSIVE PieceLoop(_, _, _)
PieceLoop(pieces, k, acc) ==
    IF k > Len(pieces) THEN acc
    ELSE IF DeleteCheckRaises(pieces[k].tokens) THEN [acc EXCEPT !.crashed = TRUE]
    ELSE IF HasDelete(pieces[k].tokens) THEN [acc EXCEPT !.skip_row = TRUE]
    ELSE PieceLoop(pieces, k + 1,
                   [acc EXCEPT !.morph_results = Append(@, MorphResult(pieces[k]))])

\* The record main appends when a row produced no result.
FallbackResult ==
    [sentence |-> <<>>, endings |-> <<>>, punctuation |-> <<>>, other_symbols |-> <<>>,
     min_prob |-> 100, last_token_prob |-> 100,
     has_oov |-> FALSE, needs_manual_intent |-> TRUE]

-----------------------------------------------------------------------------
(* 02_import_corrections.main: the record of one corrected sentence, from  *)
(* the tokens of its re-analysis                                            *)

\* min_prob = 1.0; for t in tokens: if len(t) >= 3: if t[2] < min_prob: ...
ImportMinProb(toks) ==
    Min({100} \cup {probOf(toks[k]) : k \in {j \in 1 .. Len(toks) : len(toks[j]) >= 3}})

\* last_token_prob = 1.0; if tokens: last_t = tokens[-1]; if len(last_t) >= 3
ImportLastTokenProb(toks) ==
    IF toks # <<>> /\ len(toks[Len(toks)]) >= 3 THEN probOf(toks[Len(toks)]) ELSE 100

\* if len(t) >= 4: if t[3] == 1: has_oov = True
ImportHasOov(toks) ==
    \E k \in 1 .. Len(toks) : len(toks[k]) >= 4 /\ toks[k].f[4] = 1

\* if last_token_prob < 0.7 or min_prob < 0.3: needs_manual = True
ImportNeedsManual(toks) ==
    ImportLastTokenProb(toks) < ProbLastManual \/ ImportMinProb(toks) < ProbMinManual

\* The dict appended to new_results for one sentence.
ImportResult(sent, toks) ==
    [sentence |-> sent,
     endings |-> extract_final_endings(toks),
     punctuation |-> extract_symbols(sent).punctuation,
     other_symbols |-> extract_symbols(sent).other_symbols,
     min_prob |-> ImportMinProb(toks),
     last_token_prob |-> ImportLastTokenProb(toks),
     has_oov |-> ImportHasOov(toks),
     needs_manual_intent |-> ImportNeedsManual(toks)]

-----------------------------------------------------------------------------
(* The inputs of the model.                                                *)

SeqsUpTo(S, n) == UNION {[1 .. k -> S] : k \in 0 .. n}

\* Pure-function runs: every sentence over SegChars of at most MaxLen
\* characters, with every list of at most MaxTokens tokens of SegTokens, as
\* json.loads delivers them (lists).
SegChars == {"eum", "no", " "}

SegTokens ==
    { List(<<>>),                               \* no field
      List(<< <<"no">> >>),                     \* a morph and no tag
      List(<< <<"no">>, "EC" >>),               \* (morph, tag)
      List(<< <<"eum">>, "EF", 95, 0 >>),
      List(<< <<"no">>, "JX", 95, 0 >>),
      List(<< <<"no">>, "NNG", 95, 1 >>),
      List(<< <<"eum">>, "ETN", 60, 0 >>),
      List(<< <<"?">>, "SF", 99, 0 >>) }

SegSentences == SeqsUpTo(SegChars, MaxLen)
SegTokenLists == SeqsUpTo(SegTokens, MaxTokens)

\* Refinement runs: tokens on both sides of the thresholds of the automatic
\* rules, with every kind of neighbour, and a token without a tag.
RefTokens ==
    { List(<< <<"no">> >>),
      List(<< <<"no">>, "EC", 95, 0 >>),
      List(<< <<"no">>, "EC", 90, 0 >>),
      List(<< <<"gui">>, "ETN", 91, 0 >>),
      List(<< <<"im">>, "NNG", 90, 1 >>),
      List(<< <<"no">>, "JX", 95, 0 >>),
      List(<< <<"bap">>, "NNG", 50, 0 >>),
      List(<< <<"?">>, "SF", 99, 0 >>),
      List(<< <<"eum">>, "ETN" >>),               \* (morph, tag)
      List(<< <<"go">>, "EC" >>),
      Tuple(<< <<"go">>, "ECF", 95, 0 >>) }

RefSentences == { <<>>, <<"no", "im">>, <<"gui", " ", "no", "?">> }
RefTokenLists == SeqsUpTo(RefTokens, MaxTokens)

\* Ending extraction: the token lists extract_final_endings may be given.
EndTokens ==
    { List(<< <<"no">> >>),
      List(<< <<"eum">>, "EF", 95, 0 >>),
      Tuple(<< <<"no">>, "ECF", 95, 0 >>),
      List(<< <<"no">>, "JX", 95, 0 >>),
      List(<< <<"si">>, "EP", 95, 0 >>),
      List(<< <<"bap">>, "NNG", 95, 0 >>),
      List(<< <<"go">>, "EC", 95, 0 >>),
      List(<< <<"eum">>, "ETN", 95, 0 >>) }

EndTokenLists == SeqsUpTo(EndTokens, MaxTokens)

\* Register: the endings is_banmal may be given, as extract_final_endings
\* returns them (every one has a surface and a tag).
BanmalEndings ==
    { List(<< <<"yo">>, "EF", 95, 0 >>),
      List(<< <<"se", "yo">>, "EF", 95, 0 >>),
      List(<< <<"seup", "ni", "da">>, "EF" >>),
      List(<< <<"ni", "da">>, "EF", 95, 0 >>),
      List(<< <<"da">>, "EF", 95, 0 >>),
      Tuple(<< <<"no">>, "ECF", 80, 0 >>) }

BanmalEndingLists == SeqsUpTo(BanmalEndings, MaxEndings)

\* Symbol extraction: texts of a jamo, a punctuation mark and a syllable.
\* Token lists a per-clause record is made of: what analyzer.analyze returns
\* (4-field tuples), and for 03_process_morph also a token without confidence.
AnalyzedTokens ==
    { Tuple(<< <<"bap">>, "NNG", 99, 0 >>),
      Tuple(<< <<"bap">>, "NNG", 99, 1 >>),
      Tuple(<< <<"no">>, "EC", 50, 0 >>),
      Tuple(<< <<"eum">>, "EF", 20, 0 >>),
      Tuple(<< <<"yo">>, "EF", 60, 0 >>) }
AnalyzedTokenLists == SeqsUpTo(AnalyzedTokens, MaxTokens)
PieceTokens == AnalyzedTokens \cup { List(<< <<"no">>, "EC" >>) }
PieceTokenLists == SeqsUpTo(PieceTokens, MaxTokens)
RecSentences == { <<"bap", "!">>, <<"no", "k", "k">> }

SymChars == {"k", "!", "ga"}
SymTexts == SeqsUpTo(SymChars, MaxText)

\* Sessions: the sentence segments a row of the tagged file may hold.
tIm == List(<< <<"im">>, "NNG", 95, 1 >>)
tNoEC == List(<< <<"no">>, "EC", 91, 0 >>)
tBap == List(<< <<"bap">>, "NNG", 99, 0 >>)
tEumEF == List(<< <<"eum">>, "EF", 99, 0 >>)
tNoEC2 == List(<< <<"no">>, "EC" >>)
tBap1 == List(<< <<"bap">> >>)
tIm2 == List(<< <<"im">>, "NNG" >>)

Segment(sent, toks) == [sentence |-> sent, tokens |-> toks]

\* Each row is the list json.loads gives for its sentence_segments column.
SessionRows ==
    { <<>>,
      << Segment(<<"eum", " ", "im">>, <<tEumEF, tIm>>) >>,
      << Segment(<<"im", "eum", " ", "bap">>, <<tIm, tEumEF, tBap>>) >>,
      << Segment(<<"bap", " ", "no">>, <<tBap, tNoEC, tBap>>),
         Segment(<<"bap", " ", "im">>, <<tBap, tIm>>) >>,
      << Segment(<<"im", "no">>, <<tIm, tNoEC2>>),
         Segment(<<"bap">>, <<tBap>>) >>,
      << Segment(<<"bap", "im">>, <<tBap1, tIm>>) >>,
      << Segment(<<"im">>, <<tIm2>>) >>,
      << Segment(<<"bap">>, <<>>), Segment(<<>>, <<tBap1>>) >> }

\* What the operator may type at "Choice: " (stripped, lower case) ...
Choices ==
    { <<"e">>, <<"e", "a">>, <<"k">>, <<"k", "a">>, <<"d">>, <<"d", "a">>,
      <<"s">>, <<"s", "a">>, <<"c">>, <<"c", "a">>, <<"a">>, <<"x">>, <<>> }

\* ... and at "Enter new tag" (stripped, upper case).
CustomTags == {"JX", "EC"}

-----------------------------------------------------------------------------
(* interactive_callback: the operator's answer                             *)

\* if len(choice) > 1 and choice.endswith('a')
ApplyAll(choice) == Len(choice) > 1 /\ choice[Len(choice)] = "a"

\* choice = choice[:-1]
BaseChoice(choice) ==
    IF ApplyAll(choice) THEN SubSeq(choice, 1, Len(choice) - 1) ELSE choice

\* A store that drops the other keys: what C8 must tell from Store.
StoreForget(cache, key, value) == [k \in {key} |-> value]

\* decision_cache[cache_key] = value
Store(cache, key, value) ==
    [k \in DOMAIN cache \cup {key} |-> IF k = key THEN value ELSE cache[k]]

-----------------------------------------------------------------------------
(* The session of 03_process_morph                                         *)

\* No thread is in interactive_callback; no function has been applied.
NoWorkers == <<>>
NoResult == <<>>

\* A file that does not exist, and a file holding rows.
NoFile == [exists |-> FALSE, rows |-> <<>>]
File(rows) == [exists |-> TRUE, rows |-> rows]

NoRun == [i |-> 0, acc |-> <<>>, new_tag |-> NoneTag, apply_all |-> FALSE]
NotRefined == [returned |-> FALSE, tokens |-> <<>>]

Init ==
    /\ interactive \in BOOLEAN
    /\ decision_cache = EmptyCache
    /\ stats = [corrections |-> 0, deletions |-> 0]
    /\ sentence = <<>>
    /\ tokens = <<>>
    /\ pc = "rows"
    /\ run = NoRun
    /\ calls = <<>>
    /\ refined = NotRefined
    /\ positions = <<>>
    /\ segmented = Returned(<<>>)
    /\ morph_results = <<>>
    /\ skip_row = FALSE
    /\ rowNo = 0
    /\ row = <<>>
    /\ callNo = 0
    /\ written = <<>>
    /\ typed = <<>>
    /\ workers = NoWorkers
    /\ output = NoResult
    /\ df = <<>>
    /\ output_path_partial = NoFile
    /\ output_path = NoFile

\* The call of segment_sentence_by_endings ended with result (it returned or
\* raised); main runs its loop over the pieces.
Complete(sent, result, ref) ==
    LET out == PieceLoop(result.segments, 1,
                         [morph_results |-> morph_results, skip_row |-> skip_row,
                          crashed |-> FALSE])
    IN  /\ run' = NoRun
        /\ refined' = ref
        /\ positions' = IF ref.returned THEN _token_positions(sent, ref.tokens) ELSE <<>>
        /\ segmented' = result
        /\ morph_results' = out.morph_results
        /\ skip_row' = out.skip_row
        /\ pc' = IF out.crashed THEN "crashed" ELSE "segments"

\* _refine_tokens ran to r: it blocks in input(), or the call goes on to its end.
Proceed(sent, toks, r, st) ==
    /\ stats' = [st EXCEPT !.corrections = r.corrections]
    /\ calls' = r.calls
    /\ IF r.status = "prompt"
       THEN /\ pc' = "prompt"
            /\ run' = [i |-> r.i, acc |-> r.refined, new_tag |-> r.new_tag,
                       apply_all |-> FALSE]
            /\ refined' = NotRefined
            /\ positions' = <<>>
            /\ UNCHANGED <<segmented, morph_results, skip_row>>
       ELSE IF r.status = "raise"
       THEN Complete(sent, Raised, NotRefined)
       ELSE Complete(sent, SegmentRefined(sent, r.refined),
                     [returned |-> TRUE, tokens |-> r.refined])

\* for idx, row in df.iterrows(): the next row of the input file, with the
\* segments of its sentence_segments column.  The locals of the previous row
\* are rebound before they are read again.
NextRow(segments) ==
    /\ pc = "rows"
    /\ rowNo < MaxRows
    /\ rowNo' = rowNo + 1
    /\ row' = segments
    /\ morph_results' = <<>>
    /\ skip_row' = FALSE
    /\ pc' = "segments"
    /\ sentence' = <<>>
    /\ tokens' = <<>>
    /\ calls' = <<>>
    /\ refined' = NotRefined
    /\ positions' = <<>>
    /\ segmented' = Returned(<<>>)
    /\ UNCHANGED <<interactive, decision_cache, stats, run, callNo, written, typed,
                   workers, output,
                   df, output_path_partial, output_path>>

\* for segment in segments: segment_sentence_by_endings(base_sentence, tokens,
\* refinement_callback=callback), up to its first input() or to its end.
CallSegment ==
    /\ pc = "segments"
    /\ row # <<>>
    /\ row' = Tail(row)
    /\ callNo' = callNo + 1
    /\ LET seg == Head(row) IN
       /\ sentence' = seg.sentence
       /\ tokens' = seg.tokens
       /\ IF EarlyReturn(seg.sentence, seg.tokens)
          THEN /\ Complete(seg.sentence,
                           Returned(<<[text |-> seg.sentence, tokens |-> seg.tokens]>>),
                           NotRefined)
               /\ calls' = <<>>
               /\ UNCHANGED stats
          ELSE Proceed(seg.sentence, seg.tokens,
                       RefineFrom(seg.tokens, 1, <<>>, decision_cache,
                                  stats.corrections, <<>>, interactive),
                       stats)
    /\ UNCHANGED <<interactive, decision_cache, rowNo, written, typed, workers, output,
                   df, output_path_partial, output_path>>

\* interactive_callback returns decision for tokens[run.i]; _refine_tokens goes on.
Resume(decision, cache, st) ==
    LET token == tokens[run.i]
        new_tag == IF decision # NoneTag THEN decision ELSE run.new_tag
        log == [calls EXCEPT ![Len(calls)].ret = decision]
    IN  /\ decision_cache' = cache
        /\ Proceed(sentence, tokens,
                   RefineFrom(tokens, run.i + 1, Append(run.acc, Retag(token, new_tag)),
                              cache, st.corrections, log, TRUE),
                   st)
        /\ UNCHANGED <<interactive, sentence, tokens, rowNo, row, callNo, written,
                       workers, output,
                   df, output_path_partial, output_path>>

PromptKey == CacheKey(tokens[run.i])

\* [e] Change to EF
ChooseEF(choice) ==
    /\ pc = "prompt"
    /\ typed' = choice
    /\ BaseChoice(choice) = <<"e">>
    /\ Resume("EF",
              IF ApplyAll(choice) THEN Store(decision_cache, PromptKey, "EF")
              ELSE decision_cache,
              [stats EXCEPT !.corrections = @ + 1])

\* [k] Keep
ChooseKeep(choice) ==
    /\ pc = "prompt"
    /\ typed' = choice
    /\ BaseChoice(choice) = <<"k">>
    /\ Resume(NoneTag,
              IF ApplyAll(choice) THEN Store(decision_cache, PromptKey, "KEEP")
              ELSE decision_cache,
              stats)

\* [d] Delete Sentence
ChooseDelete(choice) ==
    /\ pc = "prompt"
    /\ typed' = choice
    /\ BaseChoice(choice) = <<"d">>
    /\ Resume("DELETE", decision_cache, [stats EXCEPT !.deletions = @ + 1])

\* A skip that is cached only with the apply-to-all flag: what C24 must tell
\* from ChooseSkip.
ChooseSkipIfAll(choice) ==
    /\ pc = "prompt"
    /\ typed' = choice
    /\ BaseChoice(choice) = <<"s">>
    /\ Resume(NoneTag,
              IF ApplyAll(choice) THEN Store(decision_cache, PromptKey, "SKIP")
              ELSE decision_cache,
              stats)

\* [s] Skip
ChooseSkip(choice) ==
    /\ pc = "prompt"
    /\ typed' = choice
    /\ BaseChoice(choice) = <<"s">>
    /\ Resume(NoneTag, Store(decision_cache, PromptKey, "SKIP"), stats)

\* [c] Custom Tag: the callback asks for the tag.
ChooseCustom(choice) ==
    /\ pc = "prompt"
    /\ BaseChoice(choice) = <<"c">>
    /\ pc' = "prompt_tag"
    /\ typed' = choice
    /\ run' = [run EXCEPT !.apply_all = ApplyAll(choice)]
    /\ UNCHANGED <<interactive, decision_cache, stats, sentence, tokens, calls, refined,
                   positions, segmented, morph_results, skip_row, rowNo, row,
                   callNo, written, workers, output,
                   df, output_path_partial, output_path>>

\* An unrecognized choice taken as [k]: what C12 must tell from InvalidChoice.
InvalidChoiceKeeps(choice) ==
    /\ pc = "prompt"
    /\ BaseChoice(choice) \notin {<<"e">>, <<"k">>, <<"d">>, <<"s">>, <<"c">>}
    /\ typed' = choice
    /\ Resume(NoneTag, decision_cache, stats)

\* "Invalid choice.": the while True loop prompts again.
InvalidChoice(choice) ==
    /\ pc = "prompt"
    /\ BaseChoice(choice) \notin {<<"e">>, <<"k">>, <<"d">>, <<"s">>, <<"c">>}
    /\ typed' = choice
    /\ UNCHANGED <<interactive, decision_cache, stats, sentence, tokens, pc, run, calls,
                   refined, positions, segmented, morph_results, skip_row, rowNo, row,
                   callNo, written, workers, output,
                   df, output_path_partial, output_path>>

\* new_tag = input(...).strip().upper(), not empty
EnterTag(new_tag) ==
    /\ pc = "prompt_tag"
    /\ typed' = <<new_tag>>
    /\ Resume(new_tag,
              IF run.apply_all THEN Store(decision_cache, PromptKey, new_tag)
              ELSE decision_cache,
              [stats EXCEPT !.corrections = @ + 1])

\* "Invalid tag.": continue, back to "Choice: ".
EmptyTag ==
    /\ pc = "prompt_tag"
    /\ pc' = "prompt"
    /\ typed' = <<>>
    /\ run' = [run EXCEPT !.apply_all = FALSE]
    /\ UNCHANGED <<interactive, decision_cache, stats, sentence, tokens, calls, refined,
                   positions, segmented, morph_results, skip_row, rowNo, row,
                   callNo, written, workers, output,
                   df, output_path_partial, output_path>>

\* The row's segments are exhausted: if skip_row: continue; else the row is
\* appended to processed_rows (with the fallback record when it has none).
EndRow ==
    /\ pc = "segments"
    /\ row = <<>>
    /\ pc' = "rows"
    /\ IF skip_row
       THEN UNCHANGED <<morph_results, written>>
       ELSE /\ morph_results' = IF morph_results = <<>> THEN <<FallbackResult>>
                                ELSE morph_results
            /\ written' = Append(written, rowNo)
    /\ UNCHANGED <<interactive, decision_cache, stats, sentence, tokens, run, calls,
                   refined, positions, segmented, skip_row, rowNo, row, callNo, typed,
                   workers, output,
                   df, output_path_partial, output_path>>

Next ==
    \/ \E segments \in SessionRows : NextRow(segments)
    \/ CallSegment
    \/ \E choice \in Choices :
          \/ ChooseEF(choice)
          \/ ChooseKeep(choice)
          \/ ChooseDelete(choice)
          \/ ChooseSkip(choice)
          \/ ChooseCustom(choice)
          \/ InvalidChoice(choice)
    \/ \E new_tag \in CustomTags : EnterTag(new_tag)
    \/ EmptyTag
    \/ EndRow

Spec == Init /\ [][Next]_vars

-----------------------------------------------------------------------------
(* Pure-function runs: one call of segment_sentence_by_endings without a    *)
(* callback on an input drawn from the bounded sets.                        *)

InitSeg ==
    /\ interactive = FALSE
    /\ decision_cache = EmptyCache
    /\ stats = [corrections |-> 0, deletions |-> 0]
    /\ sentence \in SegSentences
    /\ tokens \in SegTokenLists
    /\ pc = "input"
    /\ run = NoRun
    /\ calls = <<>>
    /\ refined = NotRefined
    /\ positions = <<>>
    /\ segmented = Returned(<<>>)
    /\ morph_results = <<>>
    /\ skip_row = FALSE
    /\ rowNo = 0
    /\ row = <<>>
    /\ callNo = 0
    /\ written = <<>>
    /\ typed = <<>>
    /\ workers = NoWorkers
    /\ output = NoResult
    /\ df = <<>>
    /\ output_path_partial = NoFile
    /\ output_path = NoFile

ApplySegment ==
    /\ pc = "input"
    /\ pc' = "output"
    /\ callNo' = callNo + 1
    /\ segmented' = segment_sentence_by_endings(sentence, tokens)
    /\ refined' = IF EarlyReturn(sentence, tokens) \/ _refine_tokens(tokens).status = "raise"
                  THEN NotRefined
                  ELSE [returned |-> TRUE, tokens |-> _refine_tokens(tokens).refined]
    /\ positions' = IF refined'.returned
                    THEN _token_positions(sentence, refined'.tokens) ELSE <<>>
    /\ UNCHANGED <<interactive, decision_cache, stats, sentence, tokens, run, calls,
                   morph_results, skip_row, rowNo, row, written, typed, workers, output,
                   df, output_path_partial, output_path>>

NextSeg == ApplySegment

SpecSeg == InitSeg /\ [][NextSeg]_vars

\* The same call on the inputs of the refinement runs.
InitRef ==
    /\ interactive = FALSE
    /\ decision_cache = EmptyCache
    /\ stats = [corrections |-> 0, deletions |-> 0]
    /\ sentence \in RefSentences
    /\ tokens \in RefTokenLists
    /\ pc = "input"
    /\ run = NoRun
    /\ calls = <<>>
    /\ refined = NotRefined
    /\ positions = <<>>
    /\ segmented = Returned(<<>>)
    /\ morph_results = <<>>
    /\ skip_row = FALSE
    /\ rowNo = 0
    /\ row = <<>>
    /\ callNo = 0
    /\ written = <<>>
    /\ typed = <<>>
    /\ workers = NoWorkers
    /\ output = NoResult
    /\ df = <<>>
    /\ output_path_partial = NoFile
    /\ output_path = NoFile

SpecRef == InitRef /\ [][NextSeg]_vars

-----------------------------------------------------------------------------
(* Pure-function runs of the other functions: pc names the function that   *)
(* is to be applied to the input, output holds what it returned.           *)

InitFn ==
    /\ interactive = FALSE
    /\ decision_cache = EmptyCache
    /\ stats = [corrections |-> 0, deletions |-> 0]
    /\ \/ /\ pc = "extract_final_endings"
          /\ tokens \in EndTokenLists
          /\ sentence = <<>>
       \/ /\ pc = "is_banmal"
          /\ tokens \in BanmalEndingLists
          /\ sentence = <<>>
       \/ /\ pc = "extract_symbols"
          /\ tokens = <<>>
          /\ sentence \in SymTexts
       \/ /\ pc = "process_record"
          /\ tokens \in PieceTokenLists
          /\ sentence \in RecSentences
       \/ /\ pc = "import_record"
          /\ tokens \in AnalyzedTokenLists
          /\ sentence \in RecSentences
    /\ run = NoRun
    /\ calls = <<>>
    /\ refined = NotRefined
    /\ positions = <<>>
    /\ segmented = Returned(<<>>)
    /\ morph_results = <<>>
    /\ skip_row = FALSE
    /\ rowNo = 0
    /\ row = <<>>
    /\ callNo = 0
    /\ written = <<>>
    /\ typed = <<>>
    /\ workers = NoWorkers
    /\ output = NoResult
    /\ df = <<>>
    /\ output_path_partial = NoFile
    /\ output_path = NoFile

\* The frame of a pure-function run: all but pc and output.
fnFrame == <<interactive, decision_cache, stats, sentence, tokens, run, calls, refined,
             positions, segmented, morph_results, skip_row, rowNo, row, callNo,
             written, typed, workers, df, output_path_partial, output_path>>

\* ending_tokens = analyzer.extract_final_endings(piece_tokens)
ApplyEndings ==
    /\ pc = "extract_final_endings"
    /\ pc' = "endings"
    /\ output' = extract_final_endings(tokens)
    /\ UNCHANGED fnFrame

\* punctuation, other_symbols = analyzer.extract_symbols(piece_text)
ApplySymbols ==
    /\ pc = "extract_symbols"
    /\ pc' = "symbols"
    /\ output' = extract_symbols(sentence)
    /\ UNCHANGED fnFrame

\* MorphAnalyzer.is_banmal(endings)
ApplyBanmal ==
    /\ pc = "is_banmal"
    /\ pc' = "banmal"
    /\ output' = is_banmal(tokens)
    /\ UNCHANGED fnFrame

\* 03_process_morph: morph_results.append({...}) for one piece
ApplyProcessRecord ==
    /\ pc = "process_record"
    /\ pc' = "morph_result"
    /\ output' = MorphResult([text |-> sentence, tokens |-> tokens])
    /\ UNCHANGED fnFrame

\* 02_import_corrections: new_results.append({...}) for one sentence
ApplyImportRecord ==
    /\ pc = "import_record"
    /\ pc' = "import_result"
    /\ output' = ImportResult(sentence, tokens)
    /\ UNCHANGED fnFrame

NextFn ==
    \/ ApplyEndings
    \/ ApplyBanmal
    \/ ApplySymbols
    \/ ApplyProcessRecord
    \/ ApplyImportRecord

SpecFn == InitFn /\ [][NextFn]_vars

-----------------------------------------------------------------------------
(* Properties of one call of segment_sentence_by_endings (SpecSeg)          *)

RECURSIVE Flatten(_)
Flatten(segs) ==
    IF segs = <<>> THEN <<>> ELSE Head(segs).tokens \o Flatten(Tail(segs))

RECURSIVE JoinTexts(_)
JoinTexts(segs) ==
    IF segs = <<>> THEN <<>> ELSE Head(segs).text \o JoinTexts(Tail(segs))

RemoveWhitespace(s) == SelectSeq(s, LAMBDA c : c \notin Whitespace)

\* a is b, but for the EC tokens the flush re-tagged ECF.
SameUpToECF(a, b) ==
    /\ Len(a) = Len(b)
    /\ \A k \in 1..Len(a) :
          \/ a[k].f = b[k].f
          \/ len(b[k]) >= 2 /\ tagOf(b[k]) = "EC" /\ a[k].f = RewriteECF(b[k]).f

AllWellFormed(toks) == \A k \in 1..Len(toks) : len(toks[k]) >= 2

\* What the call was to hand to the segments: the refined tokens, or the
\* tokens as given when the call returns before refining.
Expected == IF refined.returned THEN refined.tokens ELSE tokens

\* C1 (as stated): for any sentence and any list of tokens that all have at
\* least two fields, the call returns, and the tokens of the returned
\* segments, concatenated in order, are exactly the refined token sequence
\* (a segment's closing EC read as ECF): none dropped, duplicated or reordered.
C1_TokensConserved ==
    (pc = "output" /\ AllWellFormed(tokens))
        => /\ ~segmented.raised
           /\ SameUpToECF(Flatten(segmented.segments), Expected)

\* C2 (as stated): for a non-empty sentence and a non-empty token list, the
\* texts of the returned segments, concatenated in order, reproduce the whole
\* sentence up to whitespace: no character is lost, none appears twice.
C2_TextCovered ==
    (pc = "output" /\ sentence # <<>> /\ tokens # <<>> /\ ~segmented.raised)
        => RemoveWhitespace(JoinTexts(segmented.segments)) = RemoveWhitespace(sentence)

\* C3 (as stated): for a non-empty sentence and a non-empty token list the
\* call never returns an empty list, also when every token has fewer than two
\* fields.
C3_NeverEmpty ==
    (pc = "output" /\ sentence # <<>> /\ tokens # <<>> /\ ~segmented.raised)
        => segmented.segments # <<>>

\* The n-th token was not found from the cursor and was found by the second
\* search, from the beginning of the sentence.
LocatedByRetry(sent, toks, n) ==
    LET morph == PosMorph(toks[n])
        cursor == CursorAfter(sent, toks, n - 1)
    IN  /\ morph # <<>>
        /\ Find(sent, morph, cursor) = -1
        /\ Find(sent, morph, 0) # -1

\* C6 (as stated): the start offsets _token_positions returns never decrease
\* from one token to the next, also after a token located by the retry search.
C6_StartsMonotone ==
    \A n \in 2..Len(positions) : positions[n][1] >= positions[n - 1][1]

\* C6 (amended): the start offsets never decrease from one token to the next,
\* and no token starts before the cursor, except at a token located by the
\* retry search: that token starts before the cursor.
C6_StartsMonotoneButRetry ==
    \A n \in 2..Len(positions) :
        IF LocatedByRetry(sentence, refined.tokens, n)
        THEN positions[n][1] < CursorAfter(sentence, refined.tokens, n - 1)
        ELSE /\ positions[n][1] >= positions[n - 1][1]
             /\ positions[n][1] >= CursorAfter(sentence, refined.tokens, n - 1)

\* A call where one token is located by the retry search and another one
\* further on in the sentence, from the cursor.
C6_Witness ==
    /\ pc = "output"
    /\ \E n \in 2..Len(positions) : LocatedByRetry(sentence, refined.tokens, n)
    /\ \E n \in 2..Len(positions) :
          /\ ~LocatedByRetry(sentence, refined.tokens, n)
          /\ positions[n][1] > positions[n - 1][1]

-----------------------------------------------------------------------------
(* Properties of a session of 03_process_morph (Spec)                       *)

Range(f) == {f[k] : k \in DOMAIN f}

\* C4: whenever interactive_callback is called for a token whose (surface,
\* tag) key is in decision_cache, the operator is not prompted and the call
\* returns the cached outcome: no retag for KEEP and SKIP, the cached tag
\* otherwise.  So no prompt is ever open for a cached key.
C4_CachedNeverPrompts ==
    /\ pc \in {"prompt", "prompt_tag"} => PromptKey \notin DOMAIN decision_cache
    /\ \A k \in 1 .. Len(calls) :
          calls[k].cached =>
             /\ ~calls[k].prompted
             /\ calls[k].ret = IF calls[k].value \in {"KEEP", "SKIP"}
                               THEN NoneTag ELSE calls[k].value

\* The first callback invocation of the second row's first sentence is served
\* from an entry that the first row's sentence created, with a cached tag.
C4_Witness ==
    /\ rowNo = 2
    /\ sentence = <<"im", "eum", " ", "bap">>
    /\ calls # <<>>
    /\ calls[1].cached /\ ~calls[1].prompted
    /\ calls[1].ret = "EF"
    /\ refined.returned /\ tagOf(refined.tokens[1]) = "EF"

\* C7: without a callback, refinement applies the automatic rules only: the
\* callback is never invoked and nothing is prompted, decision_cache and the
\* counters stay as they were, and each refined tag is the tag the automatic
\* rules give for the token list.
C7_NoCallbackAutomaticOnly ==
    ~interactive =>
        /\ calls = <<>>
        /\ pc \notin {"prompt", "prompt_tag"}
        /\ decision_cache = EmptyCache
        /\ stats = [corrections |-> 0, deletions |-> 0]
        /\ refined.returned =>
              \A i \in 1 .. Len(tokens) :
                  IF len(tokens[i]) >= 3
                  THEN tagOf(refined.tokens[i]) = AutoTag(tokens, i)
                  ELSE refined.tokens[i] = tokens[i]

\* A call without a callback has refined a token that a callback would have
\* been asked about.
C7_Witness ==
    /\ ~interactive
    /\ refined.returned
    /\ \E i \in 1 .. Len(tokens) :
          len(tokens[i]) >= 3 /\ Escalates(tokens[i], AutoTag(tokens, i))

\* C8: decision_cache is append-only within a session: no step removes a key
\* or changes the value of a key it holds.
C8_CacheAppendOnly ==
    [][\A k \in DOMAIN decision_cache :
          k \in DOMAIN decision_cache' /\ decision_cache'[k] = decision_cache[k]]_vars

\* A second key was stored while the cache held a first one, and a later call
\* was served from the cache.
C8_Witness ==
    /\ Cardinality(DOMAIN decision_cache) >= 2
    /\ \E k \in 1 .. Len(calls) : calls[k].cached

\* The i-th refined token keeps surface, confidence and OOV flag.
KeepsAllButTag(new, old) ==
    IF len(old) < 3 THEN new = old
    ELSE /\ morphOf(new) = morphOf(old)
         /\ probOf(new) = probOf(old)
         /\ oovOf(new) = oovOf(old)

DeletionSignaled ==
    \E i \in 1 .. Len(refined.tokens) :
        len(refined.tokens[i]) >= 2 /\ tagOf(refined.tokens[i]) = "DELETE"

\* C9: when no deletion is signaled, _refine_tokens returns as many tokens as
\* it was given, the i-th with the surface, confidence and OOV flag of the
\* i-th input token; the tokens given are the segment's tokens, unmodified.
C9_RefineKeepsAllButTag ==
    (refined.returned /\ ~DeletionSignaled) =>
        /\ Len(refined.tokens) = Len(tokens)
        /\ \A i \in 1 .. Len(tokens) : KeepsAllButTag(refined.tokens[i], tokens[i])
        /\ \E r \in SessionRows : \E k \in 1 .. Len(r) : r[k].tokens = tokens

\* A refinement that changed the tag of an out-of-vocabulary token.
C9_Witness ==
    /\ refined.returned /\ ~DeletionSignaled
    /\ \E i \in 1 .. Len(tokens) :
          /\ len(tokens[i]) >= 4 /\ oovOf(tokens[i]) = 1
          /\ tagOf(refined.tokens[i]) # tagOf(tokens[i])

\* The operator answered [d] during the latest call.
DeleteAnswered == \E k \in 1 .. Len(calls) : calls[k].ret = "DELETE"

-----------------------------------------------------------------------------
(* Properties of refinement (SpecRef)                                       *)

HasMalformed(toks) == \E k \in 1 .. Len(toks) : len(toks[k]) < 2

\* C11 (as stated): a token with fewer than 2 fields, at any position of the
\* token list, never makes the call fail: _refine_tokens and
\* segment_sentence_by_endings complete without raising, also when the token
\* follows an EC-tagged token.
C11_MalformedNeverFails ==
    (pc = "output" /\ HasMalformed(tokens)) => ~segmented.raised

-----------------------------------------------------------------------------
(* Properties of the session, continued (Spec)                              *)

RecognizedChoices == {<<"e">>, <<"k">>, <<"d">>, <<"s">>, <<"c">>}

\* The step leaves the callback where it was: the same prompt is open, for
\* the same token, and nothing was stored, counted or returned.
Reprompts ==
    /\ pc' = "prompt"
    /\ decision_cache' = decision_cache
    /\ stats' = stats
    /\ calls' = calls
    /\ run'.i = run.i /\ run'.acc = run.acc /\ run'.new_tag = run.new_tag
    /\ refined' = refined

\* C12: on a cache miss interactive_callback returns only after a recognized
\* choice (e, k, d, s, or c with a non-empty tag, each with or without 'a'):
\* every other line, a bare 'a' and an empty custom tag included, leaves
\* decision_cache and stats unchanged and leads to the same prompt again; no
\* verdict is applied by default.
C12_UnrecognizedReprompts ==
    [][/\ (pc = "prompt" /\ BaseChoice(typed') \notin RecognizedChoices) => Reprompts
       /\ (pc = "prompt_tag" /\ typed' = <<>>) => Reprompts]_vars

\* The prompt is open again after the operator typed a bare 'a'.
C12_Witness ==
    /\ pc = "prompt"
    /\ typed = <<"a">>
    /\ calls # <<>> /\ calls[Len(calls)].prompted /\ calls[Len(calls)].ret = NoneTag

-----------------------------------------------------------------------------
(* Properties of the other pure functions (SpecFn)                          *)

\* The token opens an ending cluster.
OpensCluster(token) == tagOf(token) \in FINAL_ENDING_TAGS

\* f names, for each returned token, a place of the input where it stands:
\* in input order, no place twice, and the first returned token opens a cluster.
PlacesEndings(f) ==
    /\ \A k \in 1 .. Len(output) : tokens[f[k]] = output[k]
    /\ \A k \in 1 .. (Len(output) - 1) : f[k] < f[k + 1]
    /\ output # <<>> => OpensCluster(output[1])

\* C13 (as stated): every ending cluster extract_final_endings returns (an EF
\* or ECF token and the particles that follow it) is a contiguous sub-sequence
\* of the input token list, in input order; no token is returned twice.
C13_ClustersContiguous ==
    pc = "endings" =>
        \E f \in [1 .. Len(output) -> 1 .. Len(tokens)] :
            /\ PlacesEndings(f)
            /\ \A k \in 2 .. Len(output) :
                  ~OpensCluster(output[k]) => f[k] = f[k - 1] + 1

\* C13 (amended): every ending cluster is a sub-sequence of the input token
\* list, in input order and with no token returned twice, that is contiguous
\* but for the tokens with fewer than 2 fields, which are passed over.
C13_ClustersContiguousButMalformed ==
    pc = "endings" =>
        \E f \in [1 .. Len(output) -> 1 .. Len(tokens)] :
            /\ PlacesEndings(f)
            /\ \A k \in 2 .. Len(output) :
                  ~OpensCluster(output[k]) =>
                      \A j \in (f[k - 1] + 1) .. (f[k] - 1) : len(tokens[j]) < 2

\* An ending, a token without a tag, and a particle collected after it.
C13_Witness ==
    /\ pc = "endings"
    /\ Len(output) >= 2 /\ ~OpensCluster(output[2])
    /\ \E k \in 2 .. (Len(tokens) - 1) :
          /\ len(tokens[k]) < 2
          /\ OpensCluster(tokens[k - 1])
          /\ tokens[k + 1] = output[2]

\* The runs of the class in the text, each cut to its first 3 characters.
CappedRuns(class) ==
    LET runs == finditer(class, sentence) IN [k \in 1 .. Len(runs) |-> Cap(runs[k])]

\* Where the string first occurs among the capped runs.
FirstRun(capped, x) == Min({k \in 1 .. Len(capped) : capped[k] = x})

\* The list holds every capped run once, in the order of their first runs,
\* and no string of more than 3 characters.
ListsCappedRunsOnce(list, capped) ==
    /\ \A k \in 1 .. Len(list) : Len(list[k]) <= 3
    /\ \A j, k \in 1 .. Len(list) : j # k => list[j] # list[k]
    /\ Range(list) = Range(capped)
    /\ \A j, k \in 1 .. Len(list) :
          j < k => FirstRun(capped, list[j]) < FirstRun(capped, list[k])

\* C14: neither list extract_symbols returns holds a string of more than 3
\* characters or the same string twice, also when two different runs are equal
\* once cut to 3 characters; the entries are in first-occurrence order.
C14_SymbolsCappedDistinct ==
    pc = "symbols" =>
        /\ ListsCappedRunsOnce(output.punctuation, CappedRuns(PunctuationChars))
        /\ ListsCappedRunsOnce(output.other_symbols, CappedRuns(EmotionChars))

\* A text with two different runs of jamo that are equal once cut, after a
\* shorter run.
C14_Witness ==
    /\ pc = "symbols"
    /\ LET runs == finditer(EmotionChars, sentence) IN
       /\ Len(runs) >= 2
       /\ \E j, k \in 1 .. Len(runs) : j < k /\ runs[j] # runs[k] /\ Cap(runs[j]) = Cap(runs[k])
    /\ Len(output.punctuation) >= 1

\* The surface holds a politeness marker as a substring.
HoldsMarker(ending) ==
    \E p \in polite_endings :
        \E a \in 1 .. Len(morphOf(ending)) :
            \E b \in a .. Len(morphOf(ending)) : SubSeq(morphOf(ending), a, b) = p

politeCount == Cardinality({k \in 1 .. Len(tokens) : HoldsMarker(tokens[k])})
informalCount == Cardinality({k \in 1 .. Len(tokens) : ~HoldsMarker(tokens[k])})

Reorderings == {f \in [1 .. Len(tokens) -> 1 .. Len(tokens)] :
                    \A j, k \in 1 .. Len(tokens) : j # k => f[j] # f[k]}

\* C15: is_banmal returns False for an empty list; otherwise it returns False
\* exactly when politeCount > 0 and 2 * politeCount >= informalCount, and True
\* in every other case; the endings in any other order give the same result.
C15_BanmalByCounts ==
    pc = "banmal" =>
        /\ tokens = <<>> => output = FALSE
        /\ tokens # <<>> =>
              (output = FALSE <=> (politeCount > 0 /\ 2 * politeCount >= informalCount))
        /\ output \in BOOLEAN
        /\ \A f \in Reorderings :
              is_banmal([k \in 1 .. Len(tokens) |-> tokens[f[k]]]) = output

\* One polite ending among two others is polite still: the verdict at the
\* boundary of the rule.
C15_Witness ==
    /\ pc = "banmal"
    /\ politeCount = 1 /\ informalCount = 2
    /\ output = FALSE
    /\ ~HoldsMarker(tokens[1])

-----------------------------------------------------------------------------
(* Two workers calling interactive_callback against the one module-level   *)
(* decision_cache.  The callback takes no lock; a worker blocked in         *)
(* input() lets the other run, so the steps of a worker are the stretches  *)
(* of the callback between two input() calls.                               *)

Workers == {1, 2}

\* The tokens the workers' sentences escalate to the callback.
WorkerTokens == {tIm, tNoEC}

\* A worker between two callback invocations.
Idle(n) == [at |-> "idle", key |-> <<>>, apply_all |-> FALSE, calls |-> n]

InitWorkers ==
    /\ interactive = TRUE
    /\ decision_cache = EmptyCache
    /\ stats = [corrections |-> 0, deletions |-> 0]
    /\ sentence = <<>>
    /\ tokens = <<>>
    /\ pc = "workers"
    /\ run = NoRun
    /\ calls = <<>>
    /\ refined = NotRefined
    /\ positions = <<>>
    /\ segmented = Returned(<<>>)
    /\ morph_results = <<>>
    /\ skip_row = FALSE
    /\ rowNo = 0
    /\ row = <<>>
    /\ callNo = 0
    /\ written = <<>>
    /\ typed = <<>>
    /\ workers = [w \in Workers |-> Idle(0)]
    /\ output = NoResult
    /\ df = <<>>
    /\ output_path_partial = NoFile
    /\ output_path = NoFile

\* All but the state the callback reads and writes.
workerFrame == <<interactive, sentence, tokens, pc, run, calls, refined, positions,
                 segmented, morph_results, skip_row, rowNo, row, callNo, written,
                 output,
                   df, output_path_partial, output_path>>

\* interactive_callback(token, ...) up to its first input(): the cached
\* decision is returned on a hit, the operator is prompted on a miss.
WorkerCall(w, token) ==
    LET key == CacheKey(token) IN
    /\ workers[w].at = "idle"
    /\ workers[w].calls < MaxCalls
    /\ IF CacheHit(decision_cache, key)
       THEN /\ workers' = [workers EXCEPT ![w] = Idle(@.calls + 1)]
            /\ stats' = IF CachedDecision(decision_cache, key) # NoneTag
                        THEN [stats EXCEPT !.corrections = @ + 1] ELSE stats
       ELSE /\ workers' = [workers EXCEPT ![w].at = "prompt", ![w].key = key]
            /\ UNCHANGED stats
    /\ UNCHANGED <<decision_cache, typed>>
    /\ UNCHANGED workerFrame

\* choice = input("Choice: ") answered to worker w, up to the return or the
\* next input().
WorkerChoose(w, choice) ==
    LET me == workers[w]
        base == BaseChoice(choice)
        returns == Idle(me.calls + 1)
    IN
    /\ me.at = "prompt"
    /\ typed' = choice
    /\ CASE base = <<"e">> ->
              /\ decision_cache' = IF ApplyAll(choice)
                                   THEN Store(decision_cache, me.key, "EF")
                                   ELSE decision_cache
              /\ stats' = [stats EXCEPT !.corrections = @ + 1]
              /\ workers' = [workers EXCEPT ![w] = returns]
         [] base = <<"k">> ->
              /\ decision_cache' = IF ApplyAll(choice)
                                   THEN Store(decision_cache, me.key, "KEEP")
                                   ELSE decision_cache
              /\ workers' = [workers EXCEPT ![w] = returns]
              /\ UNCHANGED stats
         [] base = <<"d">> ->
              /\ stats' = [stats EXCEPT !.deletions = @ + 1]
              /\ workers' = [workers EXCEPT ![w] = returns]
              /\ UNCHANGED decision_cache
         [] base = <<"s">> ->
              /\ decision_cache' = Store(decision_cache, me.key, "SKIP")
              /\ workers' = [workers EXCEPT ![w] = returns]
              /\ UNCHANGED stats
         [] base = <<"c">> ->
              /\ workers' = [workers EXCEPT ![w].at = "prompt_tag",
                                            ![w].apply_all = ApplyAll(choice)]
              /\ UNCHANGED <<decision_cache, stats>>
         [] OTHER ->
              UNCHANGED <<decision_cache, stats, workers>>
    /\ UNCHANGED workerFrame

\* new_tag = input("Enter new tag ...") answered to worker w: an empty tag
\* goes back to "Choice: ".
WorkerEnterTag(w, new_tag) ==
    LET me == workers[w] IN
    /\ me.at = "prompt_tag"
    /\ typed' = new_tag
    /\ IF new_tag = <<>>
       THEN /\ workers' = [workers EXCEPT ![w].at = "prompt", ![w].apply_all = FALSE]
            /\ UNCHANGED <<decision_cache, stats>>
       ELSE /\ decision_cache' = IF me.apply_all
                                 THEN Store(decision_cache, me.key, new_tag[1])
                                 ELSE decision_cache
            /\ stats' = [stats EXCEPT !.corrections = @ + 1]
            /\ workers' = [workers EXCEPT ![w] = Idle(me.calls + 1)]
    /\ UNCHANGED workerFrame

NextWorkers ==
    \/ \E w \in Workers, token \in WorkerTokens : WorkerCall(w, token)
    \/ \E w \in Workers, choice \in Choices : WorkerChoose(w, choice)
    \/ \E w \in Workers, new_tag \in {<<>>} \cup {<<t>> : t \in CustomTags} :
          WorkerEnterTag(w, new_tag)

SpecWorkers == InitWorkers /\ [][NextWorkers]_vars

-----------------------------------------------------------------------------
(* A run of main over one input file that may be interrupted and started   *)
(* again.  A row is its number in the deduplicated input and the verdict   *)
(* the operator gives on its sentence: "DELETE" sets skip_row, any other   *)
(* verdict leaves the row to be appended to processed_rows.                *)

Verdicts == {"KEEP", "DELETE"}

InputFrames ==
    UNION { { [k \in 1 .. n |-> [no |-> k, verdict |-> v[k]]] :
              v \in [1 .. n -> Verdicts] } : n \in 0 .. MaxInput }

InitResume ==
    /\ interactive = TRUE
    /\ decision_cache = EmptyCache
    /\ stats = [corrections |-> 0, deletions |-> 0]
    /\ sentence = <<>>
    /\ tokens = <<>>
    /\ pc = "start"
    /\ run = NoRun
    /\ calls = <<>>
    /\ refined = NotRefined
    /\ positions = <<>>
    /\ segmented = Returned(<<>>)
    /\ morph_results = <<>>
    /\ skip_row = FALSE
    /\ rowNo = 0
    /\ row = <<>>
    /\ callNo = 0
    /\ written = <<>>
    /\ typed = <<>>
    /\ workers = NoWorkers
    /\ output = NoResult
    /\ df \in InputFrames
    /\ output_path_partial = NoFile
    /\ output_path = NoFile

\* All but the state a resumable run reads and writes.
resumeFrame == <<interactive, decision_cache, stats, sentence, tokens, run, calls,
                 refined, positions, segmented, morph_results, row, callNo, typed,
                 workers, output>>

\* start_idx = 0; if output_path_partial.exists(): start_idx = len(partial_df)
start_idx(partial) == IF partial.exists THEN Len(partial.rows) ELSE 0

\* partial_df.to_csv(output_path_partial, mode='a', ...)
AppendRows(file, rows) == File(file.rows \o rows)

\* main is started on the input file: processed_rows = [], the partial file
\* is counted and df = df.iloc[start_idx:], or the file is taken as done.
StartRun ==
    /\ pc = "start"
    /\ written' = <<>>
    /\ skip_row' = FALSE
    /\ LET start == start_idx(output_path_partial) IN
       IF start > 0 /\ start >= Len(df)
       THEN /\ pc' = "done"
            /\ rowNo' = rowNo
            /\ IF ~output_path.exists
               THEN /\ output_path' = File(output_path_partial.rows)
                    /\ output_path_partial' = NoFile
               ELSE UNCHANGED <<output_path, output_path_partial>>
       ELSE /\ pc' = "rows"
            /\ rowNo' = start
            /\ UNCHANGED <<output_path, output_path_partial>>
    /\ UNCHANGED df
    /\ UNCHANGED resumeFrame

\* One iteration of for idx, row in df.iterrows(): if skip_row: continue;
\* processed_rows.append(row); the buffer is appended to the partial file
\* and cleared once it holds save_interval rows.
ProcessRow ==
    /\ pc = "rows"
    /\ rowNo < Len(df)
    /\ rowNo' = rowNo + 1
    /\ LET this == df[rowNo + 1]
           processed_rows == Append(written, this.no)
       IN  /\ skip_row' = (this.verdict = "DELETE")
           /\ IF this.verdict = "DELETE"
              THEN UNCHANGED <<written, output_path_partial>>
              ELSE IF Len(processed_rows) >= save_interval
                   THEN /\ output_path_partial' =
                               AppendRows(output_path_partial, processed_rows)
                        /\ written' = <<>>
                   ELSE /\ written' = processed_rows
                        /\ UNCHANGED output_path_partial
    /\ UNCHANGED <<pc, df, output_path>>
    /\ UNCHANGED resumeFrame

\* # Save remaining rows
SaveRemaining ==
    /\ pc = "rows"
    /\ rowNo = Len(df)
    /\ pc' = "rename"
    /\ output_path_partial' = IF written # <<>>
                              THEN AppendRows(output_path_partial, written)
                              ELSE output_path_partial
    /\ UNCHANGED <<skip_row, rowNo, written, df, output_path>>
    /\ UNCHANGED resumeFrame

\* # Rename partial to final
RenamePartial ==
    /\ pc = "rename"
    /\ pc' = "done"
    /\ IF output_path_partial.exists
       THEN /\ output_path' = File(output_path_partial.rows)
            /\ output_path_partial' = NoFile
       ELSE UNCHANGED <<output_path, output_path_partial>>
    /\ UNCHANGED <<skip_row, rowNo, written, df>>
    /\ UNCHANGED resumeFrame

\* The process is stopped inside the loop or before the rename: its locals
\* are gone, the files stay as they are.
Interrupt ==
    /\ pc \in {"rows", "rename"}
    /\ pc' = "start"
    /\ rowNo' = 0
    /\ written' = <<>>
    /\ skip_row' = FALSE
    /\ UNCHANGED <<df, output_path_partial, output_path>>
    /\ UNCHANGED resumeFrame

NextResume ==
    \/ StartRun
    \/ ProcessRow
    \/ SaveRemaining
    \/ RenamePartial
    \/ Interrupt

SpecResume == InitResume /\ [][NextResume]_vars

-----------------------------------------------------------------------------
(* C17 *)

Prompting(w) == workers[w].at \in {"prompt", "prompt_tag"}

\* C17: with two workers on the one shared cache, no state has both workers
\* prompting the operator for the same (surface, tag) pair.
C17_NeverBothPromptSameKey ==
    pc = "workers" =>
        \A v, w \in Workers :
            (v # w /\ Prompting(v) /\ Prompting(w)) => workers[v].key # workers[w].key

-----------------------------------------------------------------------------
(* C16 *)

\* The clause's minimum token confidence is below the fixed threshold.
LowConfidence(toks) ==
    \E k \in 1 .. Len(toks) : len(toks[k]) >= 3 /\ probOf(toks[k]) < ProbManual

\* Some token of the clause has the out-of-vocabulary flag set.
AnyOov(toks) ==
    \E k \in 1 .. Len(toks) : len(toks[k]) >= 4 /\ toks[k].f[4] # 0

\* C16: every per-clause record, made by 03_process_morph or made again by
\* 02_import_corrections, has its manual-review flag set whenever the
\* clause's minimum token confidence is below the threshold or a token of
\* the clause is out of vocabulary.
C16_ManualReviewFlagged ==
    (pc \in {"morph_result", "import_result"}
        /\ (LowConfidence(tokens) \/ AnyOov(tokens)))
    => output.needs_manual_intent

-----------------------------------------------------------------------------
(* C18 *)

\* C18: in the batch loop of 03_process_morph a failure while one segment
\* is processed (in segmentation, in the decision source, or in the loop
\* over its pieces) never aborts the batch: main never leaves the loop over
\* the rows by an exception, so the segments and rows that remain are
\* still processed.
C18_BatchNeverAborts ==
    pc # "crashed"

-----------------------------------------------------------------------------
(* C19 *)

\* The indices of the refined tokens the main while does not pass over.
Kept ==
    SelectSeq([k \in 1 .. Len(refined.tokens) |-> k],
              LAMBDA k : len(refined.tokens[k]) >= 2)

\* The returned segments hold the kept tokens in order: segment j holds the
\* kept tokens number SegOffset(j) + 1 .. SegOffset(j) + its length.
SegOffset(j) == Len(Flatten(SubSeq(segmented.segments, 1, j - 1)))
SegIndices(j) ==
    {Kept[k] : k \in (SegOffset(j) + 1) ..
                     (SegOffset(j) + Len(segmented.segments[j].tokens))}
SegStart(j) == positions[Kept[SegOffset(j) + 1]][1]

\* Segment j was flushed by the EF branch: it holds an EF token.
ClosedByEF(j) == \E i \in SegIndices(j) : tagOf(refined.tokens[i]) = "EF"

\* A token is left after segment j: the next unabsorbed token.
HasNext(j) == SegOffset(j + 1) < Len(Kept)
NextStart(j) == positions[Kept[SegOffset(j + 1) + 1]][1]

\* The tracked end offset: the end of the last token of segment j that
\* was located in the sentence, NonePos when none was.
TrackedEnd(j) ==
    LET located == {i \in SegIndices(j) : positions[i][2] > positions[i][1]}
    IN  IF located = {} THEN NonePos ELSE positions[Max(located)][2]

\* The text of segment j is the sentence from the segment's start to end_at,
\* stripped.
EndsAt(j, end_at) ==
    segmented.segments[j].text = Strip(Slice(sentence, SegStart(j), end_at))

\* C19 (as stated): a segment closed by an EF token (with the tokens absorbed
\* after it) ends at the start offset of the next unabsorbed token when there
\* is one, never at the tracked end offset, and at the sentence length when
\* no token remains.
C19_EndsAtNextStart ==
    (pc = "output" /\ refined.returned /\ ~segmented.raised) =>
        \A j \in 1 .. Len(segmented.segments) :
            ClosedByEF(j) =>
                IF HasNext(j) THEN EndsAt(j, NextStart(j))
                ELSE EndsAt(j, Len(sentence))

\* C19 (amended): ... it ends at the start offset of the next unabsorbed
\* token unless that token starts before the tracked end offset: then it
\* ends at the tracked end offset.
C19_EndsAtNextStartOrTrackedEnd ==
    (pc = "output" /\ refined.returned /\ ~segmented.raised) =>
        \A j \in 1 .. Len(segmented.segments) :
            ClosedByEF(j) =>
                IF HasNext(j)
                THEN EndsAt(j, IF TrackedEnd(j) = NonePos \/ NextStart(j) >= TrackedEnd(j)
                               THEN NextStart(j) ELSE TrackedEnd(j))
                ELSE EndsAt(j, Len(sentence))

\* A call that returned a segment closed by an EF token whose next token
\* starts before the tracked end: the text does not end at that start.
C19_Witness ==
    /\ pc = "output" /\ refined.returned /\ ~segmented.raised
    /\ \E j \in 1 .. Len(segmented.segments) :
          /\ ClosedByEF(j) /\ HasNext(j)
          /\ TrackedEnd(j) # NonePos /\ NextStart(j) < TrackedEnd(j)
          /\ segmented.segments[j].text # <<>>
          /\ ~EndsAt(j, NextStart(j))

-----------------------------------------------------------------------------
(* C20 *)

\* What rules 0 and 0-1 alone may make of a tag.
LeftToOtherRules(tag, new_tag) ==
    \/ new_tag = tag
    \/ tag = "ETN" /\ new_tag = "EF"
    \/ tag = "EC" /\ new_tag = "ECF"

\* C20: without a callback, every token whose surface is one of the
\* colloquial endings and whose confidence is <= 0.9 comes out of the
\* refinement tagged EF, whatever its tag was and whatever rules 0 and 0-1
\* made of it; above 0.9 its tag is what those rules alone make of it.
C20_ColloquialForcedEF ==
    (pc = "output" /\ ~interactive /\ refined.returned) =>
        \A k \in 1 .. Len(tokens) :
            (len(tokens[k]) >= 3 /\ morphOf(tokens[k]) \in FORCE_EF_MORPHS) =>
                IF probOf(tokens[k]) <= ProbForceEF
                THEN tagOf(refined.tokens[k]) = "EF"
                ELSE LeftToOtherRules(tagOf(tokens[k]), tagOf(refined.tokens[k]))

\* A refinement of a sentence-final EC token with a colloquial surface and
\* confidence 0.9, which rule 0-1 makes ECF: it came out EF.
C20_Witness ==
    /\ pc = "output" /\ ~interactive /\ refined.returned
    /\ \E k \in 1 .. Len(tokens) :
          /\ len(tokens[k]) >= 3
          /\ morphOf(tokens[k]) \in FORCE_EF_MORPHS
          /\ probOf(tokens[k]) <= ProbForceEF
          /\ tagOf(tokens[k]) = "EC"
          /\ LastMeaningful(tokens, k + 1) = "yes"
          /\ tagOf(refined.tokens[k]) = "EF"

-----------------------------------------------------------------------------
(* C21 *)

\* Token k of the input has a surface and a tag.
Tagged(k) == len(tokens[k]) >= 2

\* No token follows token k, or the one that does has (in the input) a tag
\* that does not start with 'J'.
NoJosaFollows(k) ==
    \/ k = Len(tokens)
    \/ Tagged(k + 1) /\ ~startswith(tagOf(tokens[k + 1]), "J")

\* C21: without a callback, every ETN-tagged token with a surface of the
\* deverbal-ending set that is not followed by a token whose input tag starts
\* with 'J' comes out of the refinement tagged EF.
C21_DeverbalEndingBecomesEF ==
    (pc = "output" /\ ~interactive /\ refined.returned) =>
        \A k \in 1 .. Len(tokens) :
            (/\ Tagged(k)
             /\ tagOf(tokens[k]) = "ETN"
             /\ morphOf(tokens[k]) \in ETN_ENDINGS
             /\ NoJosaFollows(k))
            => tagOf(refined.tokens[k]) = "EF"

-----------------------------------------------------------------------------
(* C22 *)

\* The confidence of token k, 0.0 when the token has none.
Confidence(k) == IF len(tokens[k]) >= 3 THEN probOf(tokens[k]) ELSE 0

\* The forced retag to EF applies to token k.
ForcedEF(k) ==
    morphOf(tokens[k]) \in FORCE_EF_MORPHS /\ Confidence(k) <= ProbForceEF

\* Every token after token k has a tag starting with 'S', or none follows.
OnlyPunctuationFollows(k) ==
    \A j \in (k + 1) .. Len(tokens) : Tagged(j) /\ startswith(tagOf(tokens[j]), "S")

\* C22: without a callback, an EC-tagged token comes out tagged ECF exactly
\* when only punctuation-tagged tokens (or none) follow it and the forced
\* retag to EF does not apply to it; followed by another token, it keeps EC.
C22_LastConnectiveBecomesECF ==
    (pc = "output" /\ ~interactive /\ refined.returned) =>
        \A k \in 1 .. Len(tokens) :
            (Tagged(k) /\ tagOf(tokens[k]) = "EC") =>
                /\ tagOf(refined.tokens[k]) = "ECF"
                       <=> (OnlyPunctuationFollows(k) /\ ~ForcedEF(k))
                /\ (~OnlyPunctuationFollows(k) /\ ~ForcedEF(k))
                       => tagOf(refined.tokens[k]) = "EC"

-----------------------------------------------------------------------------
(* C23 *)

\* A token whose input tag starts with 'J' follows token k.
JosaFollows(k) ==
    k < Len(tokens) /\ Tagged(k + 1) /\ startswith(tagOf(tokens[k + 1]), "J")

\* The tag of token k after the automatic rules.
TagAfterRules(k) ==
    IF ForcedEF(k) THEN "EF"
    ELSE IF tagOf(tokens[k]) = "EC" /\ OnlyPunctuationFollows(k) THEN "ECF"
    ELSE IF /\ tagOf(tokens[k]) = "ETN"
            /\ morphOf(tokens[k]) \in ETN_ENDINGS
            /\ ~JosaFollows(k)
    THEN "EF"
    ELSE tagOf(tokens[k])

\* The tokens the decision source is to be consulted for.
Ambiguous(k) ==
    /\ Tagged(k)
    /\ \/ TagAfterRules(k) = "EC" /\ Confidence(k) <= ProbAskEC
       \/ TagAfterRules(k) = "ETN" /\ morphOf(tokens[k]) \in ASK_ETN_MORPHS
       \/ morphOf(tokens[k]) = ASK_MORPH

ConsultedKeys == [n \in 1 .. Len(calls) |-> calls[n].key]

AmbiguousKeys ==
    LET ks == SelectSeq([k \in 1 .. Len(tokens) |-> k], Ambiguous)
    IN  [n \in 1 .. Len(ks) |-> CacheKey(tokens[ks[n]])]

\* C23: with a decision source, a refinement that ran to its end consulted
\* the source once for each token that after the automatic rules is EC with
\* confidence <= 0.92, or ETN with surface in {m, eum}, or has surface im,
\* in token order, and for no other token.
C23_ConsultedExactlyWhenAmbiguous ==
    (pc = "segments" /\ interactive /\ refined.returned) =>
        ConsultedKeys = AmbiguousKeys

-----------------------------------------------------------------------------
(* C24 *)

\* The cache with value written under the key of the token prompted for.
Persisted(value) ==
    [k \in DOMAIN decision_cache \cup {PromptKey} |->
        IF k = PromptKey THEN value ELSE decision_cache[k]]

\* The cache after the operator typed answer at "Choice: ".
AfterVerdict(answer) ==
    LET flag == Len(answer) > 1 /\ answer[Len(answer)] = "a"
        verdict == IF flag THEN SubSeq(answer, 1, Len(answer) - 1) ELSE answer
    IN  CASE verdict = <<"e">> /\ flag -> Persisted("EF")
          [] verdict = <<"k">> /\ flag -> Persisted("KEEP")
          [] verdict = <<"s">> -> Persisted("SKIP")
          [] OTHER -> decision_cache

\* C24: an operator verdict is written to the cache, under the (surface, tag)
\* of the token, exactly when it is a retag or a keep given with the
\* apply-to-all flag, or a skip; a delete is never written, and a verdict
\* that is not written leaves the cache as it was.
C24_VerdictPersistedByFlag ==
    [][/\ pc = "prompt" => decision_cache' = AfterVerdict(typed')
       /\ pc = "prompt_tag" =>
             decision_cache' = IF typed' # <<>> /\ run.apply_all
                               THEN Persisted(typed'[1]) ELSE decision_cache]_vars

\* A retag was given without the flag in the first row; the same pair is
\* prompted for again in the second.
C24_Witness ==
    /\ rowNo = 2
    /\ pc = "prompt"
    /\ PromptKey = <<ASK_MORPH, "NNG">>
    /\ typed = <<"e">>
    /\ stats.corrections >= 1
    /\ decision_cache = EmptyCache

-----------------------------------------------------------------------------
(* C25 *)

\* C25: without a callback, a token with a surface and a tag and no further
\* field comes out of the refinement with the tag the automatic rules give
\* it at confidence 0.0; a token with fewer than 2 fields comes out as it
\* went in.
C25_ShortTokenRefinedAtZeroConfidence ==
    (pc = "output" /\ ~interactive /\ refined.returned) =>
        \A k \in 1 .. Len(tokens) :
            /\ len(tokens[k]) = 2 => tagOf(refined.tokens[k]) = TagAfterRules(k)
            /\ len(tokens[k]) < 2 => refined.tokens[k] = tokens[k]

-----------------------------------------------------------------------------
(* C26 *)

\* Token k is tagged EF or ECF.
IsEnding(k) == Tagged(k) /\ tagOf(tokens[k]) \in {"EF", "ECF"}

\* Token k has a tag that starts with 'J' or is 'EP'.
Attaches(k) ==
    Tagged(k) /\ (startswith(tagOf(tokens[k]), "J") \/ tagOf(tokens[k]) = "EP")

\* Token k is in the run of attaching tokens that immediately follows an
\* ending.
InRun(k) ==
    /\ Attaches(k)
    /\ \E h \in 1 .. (k - 1) :
          IsEnding(h) /\ \A j \in (h + 1) .. (k - 1) : Attaches(j)

\* The same, a token with fewer than 2 fields not ending the run.
InRunButMalformed(k) ==
    /\ Attaches(k)
    /\ \E h \in 1 .. (k - 1) :
          IsEnding(h) /\ \A j \in (h + 1) .. (k - 1) : Tagged(j) => Attaches(j)

Collected(k) == IsEnding(k) \/ InRun(k)
CollectedButMalformed(k) == IsEnding(k) \/ InRunButMalformed(k)

\* The tokens of the input at the places ks, in order.
TokensAt(ks) == [n \in 1 .. Len(ks) |-> tokens[ks[n]]]

Places == [k \in 1 .. Len(tokens) |-> k]

\* C26 (as stated): extract_final_endings returns, in input order, exactly
\* the tokens tagged EF or ECF and, after each, the maximal run of immediately
\* following tokens whose tag starts with 'J' or is 'EP', stopping at the
\* first token that is neither; no other token (no EC, no ETN) is returned.
C26_EndingsAndAttachedRuns ==
    pc = "endings" => output = TokensAt(SelectSeq(Places, Collected))

\* C26 (amended): ... the run stops at the first token that has a tag which
\* neither starts with 'J' nor is 'EP'; a token with fewer than 2 fields is
\* passed over and does not stop it.
C26_EndingsAndAttachedRunsButMalformed ==
    pc = "endings" => output = TokensAt(SelectSeq(Places, CollectedButMalformed))

\* A call that returned an ending and a particle collected beyond a token
\* without a tag.
C26_Witness ==
    /\ pc = "endings"
    /\ \E h, k \in 1 .. Len(tokens) :
          /\ h < k /\ IsEnding(h) /\ InRunButMalformed(k) /\ ~InRun(k)
    /\ Len(output) >= 2

-----------------------------------------------------------------------------
(* C27 *)

\* The places in endings of the tokens that open a cluster.
Openers(endings) == {k \in 1 .. Len(endings) : OpensCluster(endings[k])}

\* C27 (as stated): extract_final_endings applied to the tokens of any
\* segment segment_sentence_by_endings returned yields at most one ending
\* cluster.
C27_OneClusterPerSegment ==
    (pc = "output" /\ ~segmented.raised) =>
        \A j \in 1 .. Len(segmented.segments) :
            Cardinality(Openers(extract_final_endings(segmented.segments[j].tokens))) <= 1

\* C27 (amended): for a non-empty sentence, every cluster but the last of a
\* segment is opened by a token that was tagged ECF already when the sentence
\* was split; so at most one cluster is opened by an EF token, and it is the
\* last.
C27_OneSplitClusterPerSegment ==
    (pc = "output" /\ ~segmented.raised /\ sentence # <<>>) =>
        \A j \in 1 .. Len(segmented.segments) :
            LET endings == extract_final_endings(segmented.segments[j].tokens)
            IN  \A k \in Openers(endings) :
                    k # Max(Openers(endings)) =>
                        /\ tagOf(endings[k]) = "ECF"
                        /\ \E i \in 1 .. Len(Expected) : Expected[i] = endings[k]

\* A segment of a non-empty sentence with two clusters: one opened by a
\* token that came in tagged ECF, the last by the EF token that split.
C27_Witness ==
    /\ pc = "output" /\ ~segmented.raised /\ sentence # <<>>
    /\ \E j \in 1 .. Len(segmented.segments) :
          LET endings == extract_final_endings(segmented.segments[j].tokens)
          IN  /\ Cardinality(Openers(endings)) = 2
              /\ tagOf(endings[Max(Openers(endings))]) = "EF"

-----------------------------------------------------------------------------
(* C28 *)

\* A token the EF branch absorbs: its tag starts with 'J', is 'EP', or
\* starts with 'S'.
Absorbable(token) ==
    /\ len(token) >= 2
    /\ \/ startswith(tagOf(token), "J")
       \/ tagOf(token) = "EP"
       \/ startswith(tagOf(token), "S")

IsEF(token) == len(token) >= 2 /\ tagOf(token) = "EF"

\* In segment j the token at place p is the only EF token, and only
\* absorbable tokens come after it.
ClosesSegment(j, p) ==
    LET toks == segmented.segments[j].tokens IN
    /\ \A q \in 1 .. Len(toks) : q # p => ~IsEF(toks[q])
    /\ \A q \in (p + 1) .. Len(toks) : Absorbable(toks[q])

\* The token next opens segment j + 1, and is not absorbable.
StartsNextSegment(j, next) ==
    /\ ~Absorbable(next)
    /\ j < Len(segmented.segments)
    /\ segmented.segments[j + 1].tokens # <<>>
    /\ SameUpToECF(<<segmented.segments[j + 1].tokens[1]>>, <<next>>)

\* C28 (as stated): in every emitted segment that holds an EF token, that
\* token is the only EF token and only tokens tagged J*, EP or S* follow it;
\* the token right after the segment's last, if there is one, is none of
\* these and starts the next segment.
C28_SegmentClosedByOneEF ==
    (pc = "output" /\ ~segmented.raised) =>
        \A j \in 1 .. Len(segmented.segments) :
            \A p \in 1 .. Len(segmented.segments[j].tokens) :
                IsEF(segmented.segments[j].tokens[p]) =>
                    /\ ClosesSegment(j, p)
                    /\ SegOffset(j + 1) < Len(Expected) =>
                          StartsNextSegment(j, Expected[SegOffset(j + 1) + 1])

\* C28 (amended): for a non-empty sentence, ...; the next token with at least
\* 2 fields after the segment's last, if there is one, is none of these and
\* starts the next segment: tokens with fewer than 2 fields are passed over
\* and are in no segment.
C28_SegmentClosedByOneEFButMalformed ==
    (pc = "output" /\ ~segmented.raised /\ refined.returned) =>
        \A j \in 1 .. Len(segmented.segments) :
            \A p \in 1 .. Len(segmented.segments[j].tokens) :
                IsEF(segmented.segments[j].tokens[p]) =>
                    /\ ClosesSegment(j, p)
                    /\ HasNext(j) =>
                          StartsNextSegment(j, refined.tokens[Kept[SegOffset(j + 1) + 1]])

\* A segment closed by an EF token that absorbed a particle beyond a token
\* of fewer than 2 fields.
C28_Witness ==
    /\ pc = "output" /\ ~segmented.raised /\ refined.returned
    /\ \E j \in 1 .. Len(segmented.segments) :
          \E i \in SegIndices(j) :
              /\ tagOf(refined.tokens[i]) = "EF"
              /\ i + 2 \in SegIndices(j)
              /\ len(refined.tokens[i + 1]) < 2

-----------------------------------------------------------------------------
(* C29 *)

\* The last token of segment j.
LastOf(j) ==
    segmented.segments[j].tokens[Len(segmented.segments[j].tokens)]

\* The token that was the last of the buffer when segment j was flushed.
LastBuffered(j) == refined.tokens[Kept[SegOffset(j + 1)]]

\* C29: no emitted segment has a last token tagged EC: the flush of a
\* buffer whose last token is EC emits the segment, with that token tagged
\* ECF and its other fields as they were.
C29_ClosingConnectiveBecomesECF ==
    (pc = "output" /\ _refine_tokens(tokens).status # "raise") =>
        /\ ~segmented.raised
        /\ \A j \in 1 .. Len(segmented.segments) :
              segmented.segments[j].tokens # <<>> =>
                  /\ ~(len(LastOf(j)) >= 2 /\ tagOf(LastOf(j)) = "EC")
                  /\ refined.returned =>
                        LastOf(j).f = IF tagOf(LastBuffered(j)) = "EC"
                                      THEN <<morphOf(LastBuffered(j)), "ECF">>
                                               \o Tail2(LastBuffered(j))
                                      ELSE LastBuffered(j).f


-----------------------------------------------------------------------------
\* C30: after a run was interrupted and started again from the partial file,
\* every input row is handled once: the rows skipped are the rows already
\* consumed, so at every point of the loop the rows written (partial file and
\* buffer) are exactly the rows among those consumed that no delete verdict
\* removed, in order and once each, and the file that is renamed, and the
\* finished output file, hold exactly the rows of the input that no delete
\* verdict removed.
RECURSIVE KeptOf(_)
KeptOf(rows) ==
    IF rows = <<>> THEN <<>>
    ELSE IF Head(rows).verdict = "DELETE" THEN KeptOf(Tail(rows))
         ELSE <<Head(rows).no>> \o KeptOf(Tail(rows))

C30_EachRowHandledOnce ==
    /\ pc = "rows" =>
          output_path_partial.rows \o written = KeptOf(SubSeq(df, 1, rowNo))
    /\ pc = "rename" => output_path_partial.rows = KeptOf(df)
    /\ pc = "done" => output_path.rows = KeptOf(df)

=============================================================================
